---- MODULE Spec2Model ----
(***************************************************************************)
(* The CRD migration controller of the cluster-manager operator             *)
(* (pkg/operators/clustermanager/controllers/migrationcontroller).          *)
(*                                                                          *)
(* One step of the model is one whole invocation of sync, or one change    *)
(* made to the hub by somebody else (the API consumer, another controller, *)
(* an administrator).  The store calls a sync issues are kept in log, the  *)
(* way the fake clientset of the unit tests records its actions.           *)
(***************************************************************************)
EXTENDS Naturals, Sequences, FiniteSets, TLC

(***************************************************************************)
(* Names and small value sets                                               *)
(***************************************************************************)

SetsFile == "cluster-manager/cluster-manager-managedclustersets-migration.yaml"
BindingsFile == "cluster-manager/cluster-manager-managedclustersetbindings-migration.yaml"

\* the files listed the other way round
migrationRequestFilesReversed == <<BindingsFile, SetsFile>>

\* migrationRequestFiles, in declaration order
migrationRequestFiles == <<SetsFile, BindingsFile>>

clusterManagerApplied == "Applied"

migrationRequestCRDName == "storageversionmigrations.migration.k8s.io"

\* the delay of the AddAfter call of sync, in seconds
RequeueDelay == 5

SetsName == "managedclustersets.cluster.open-cluster-management.io"
BindingsName == "managedclustersetbindings.cluster.open-cluster-management.io"

\* a StorageVersionMigration this controller does not own; the hub holds it
\* from the start
UnrelatedName == "unrelated.example.io"

SubordinateNames == {SetsName, BindingsName}
Names == SubordinateNames \cup {UnrelatedName}

\* the resource a migration's spec names; for each subordinate one of the two
\* values is the rendered one and the other one is a drifted spec
SpecVals == {"managedclustersets", "managedclustersetbindings"}

Absent == "-"
LabelKeys == {"app"}
LabelVals == {"a", "b"}
AnnotationKeys == {"note"}
AnnotationVals == {"a"}

\* a string map over a fixed key set; Absent marks a key the map does not hold
LabelMaps == [LabelKeys -> LabelVals \cup {Absent}]
AnnotationMaps == [AnnotationKeys -> AnnotationVals \cup {Absent}]
NoLabels == [k \in LabelKeys |-> Absent]
NoAnnotations == [k \in AnnotationKeys |-> Absent]

\* the labels the embedded manifests may carry
ManifestLabelMaps == {NoLabels, [k \in LabelKeys |-> "a"]}

\* the names of the ClusterManagers (the queue keys)
Keys == {"cluster-manager"}

\* the names the reconcile scheduler is run with: two ClusterManagers
QueueKeys == {"cluster-manager", "cluster-manager-2"}

\* the workers of the controller
Workers == {"w1", "w2"}

\* the delayed adds: AddAfter with the fixed delay, AddRateLimited with the backoff
Delays == {"fixed", "backoff"}

ConditionStatuses == {"True", "False", "Unknown"}

\* the two agents of a Klusterlet, each a deployment of Replicas pods
RegistrationDeployment == "klusterlet-registration-agent"
WorkDeployment == "klusterlet-work-agent"
DeploymentNames == {RegistrationDeployment, WorkDeployment}
Replicas == 3

\* the resources a generation is kept for, and the subordinates of a Klusterlet
Resources == {"deployments", "statefulsets"}
Pairs == Resources \X DeploymentNames

\* the events of the environment a behaviour has, and the generations a
\* subordinate goes through
MaxTime == 2
MaxGeneration == 3
ConditionSets ==
    {{}} \cup {{[type |-> clusterManagerApplied, status |-> s]} : s \in ConditionStatuses}

(***************************************************************************)
(* Objects                                                                  *)
(***************************************************************************)

\* a nil *StorageVersionMigration, or the answer NotFound
NoObj ==
    [present |-> FALSE, name |-> "", spec |-> "",
     labels |-> NoLabels, annotations |-> NoAnnotations]

StorageVersionMigration(name, spec, labels, annotations) ==
    [present |-> TRUE, name |-> name, spec |-> spec,
     labels |-> labels, annotations |-> annotations]

\* the empty object a typed client hands back next to the error of a call
ZeroObj ==
    [present |-> TRUE, name |-> "", spec |-> "",
     labels |-> NoLabels, annotations |-> NoAnnotations]

NoClusterManager == [present |-> FALSE, deleting |-> FALSE, conditions |-> {}]

ClusterManager(deleting, conditions) ==
    [present |-> TRUE, deleting |-> deleting, conditions |-> conditions]

VARIABLES
    store,           \* the StorageVersionMigrations of the hub, by name
    clusterManagers, \* the ClusterManagers the lister holds, by name
    crd,             \* whether the StorageVersionMigration CRD is installed
    manifestLabels,  \* the labels of the embedded manifests (fixed by the build)
    log,             \* what the sync that just ran did
    prev,            \* a summary of the sync before it, when nothing happened in between
    parity,          \* the number of syncs since the last change from outside, modulo 2
    queue,           \* the work queue: the keys waiting for a worker, in order
    dirty,           \* the keys added since a worker last took them
    running,         \* the key each worker is running sync for, "" when it has none
    waitingForAdd,   \* per key, the delayed adds that are waiting for their time
    unserved,        \* the keys signalled since their reconcile last started
    signals,         \* what the status of a Klusterlet is made of: secrets, deployments
    klusterletConditions, \* Status.Conditions of the Klusterlet, in the order of the slice
    now,             \* the time, counted in events of the environment
    statusLog,       \* what the last write of conditions did
    subordinates,    \* generation and drift of the subordinates, by (resource, name)
    generations,     \* Status.Generations of the Klusterlet, in the order of the slice
    recorded,        \* per (resource, name) the generation last recorded, 0 if none
    ctxDone,         \* whether the context of the syncs is cancelled (shutdown)
    reconcile        \* the sync that runs call by call: its calls left, its call in flight

schedVars == <<queue, dirty, running, waitingForAdd, unserved>>

statusVars == <<signals, klusterletConditions, now, statusLog>>

trackerVars == <<subordinates, generations, recorded>>

cancelVars == <<ctxDone, reconcile>>

vars == <<store, clusterManagers, crd, manifestLabels, log, prev, parity,
          queue, dirty, running, waitingForAdd, unserved,
          signals, klusterletConditions, now, statusLog,
          subordinates, generations, recorded, ctxDone, reconcile>>

(***************************************************************************)
(* The rendered manifests                                                   *)
(***************************************************************************)

\* metadata.name of the manifest
NameOfFile(file) == IF file = SetsFile THEN SetsName ELSE BindingsName

\* spec of the manifest: the resource to migrate
SpecOfFile(file) ==
    IF file = SetsFile THEN "managedclustersets" ELSE "managedclustersetbindings"

\* manifests(file) decoded by genericCodec: the required object
Required(file, labels) ==
    StorageVersionMigration(NameOfFile(file), SpecOfFile(file), labels, NoAnnotations)

(***************************************************************************)
(* The store calls, as the clientset answers them                           *)
(***************************************************************************)

Call(verb, name, obj, out) == [verb |-> verb, name |-> name, obj |-> obj, out |-> out]

Event(reason, name) == [reason |-> reason, name |-> name]

\* resourcemerge.MergeMap: every key of required is set in existing
MergeMap(existing, required) ==
    [k \in DOMAIN existing |->
        IF required[k] # Absent /\ existing[k] # required[k]
        THEN required[k] ELSE existing[k]]

\* resourcemerge.EnsureObjectMeta on a copy of existing: the merged copy
EnsureObjectMeta(existing, required) ==
    [existing EXCEPT
        !.name = IF required.name # "" THEN required.name ELSE existing.name,
        !.labels = MergeMap(existing.labels, required.labels),
        !.annotations = MergeMap(existing.annotations, required.annotations)]

\* a comparison that never finds the specs equal
SpecDiffersAlways(existingCopy, required) == TRUE

\* a comparison that never finds the specs different
SpecDiffersNever(existingCopy, required) == FALSE

\* !equality.Semantic.DeepEqual(existingCopy.Spec, required.Spec)
SpecDiffers(existingCopy, required) == existingCopy.spec # required.spec

\* the object of the Update call: existingCopy; required.Spec was assigned to
\* existing, which is not sent
UpdateBody(existing, existingCopy, required) == existingCopy

\* the object of the Create call
CreateBody(required) == required

(***************************************************************************)
(* applyStorageVersionMigration and removeStorageVersionMigration          *)
(*                                                                          *)
(* asset says what manifests(file) and the decoder give ("ok", "missing",   *)
(* "undecodable", "invalid"); fault names the store call that fails in      *)
(* this invocation: "none", "get", "mutate" (Create, Update or Delete fails *)
(* and the client hands back an empty object), "mutateNil" (the same, the   *)
(* client hands back nil, as the fake clientset does), "conflict" (Update   *)
(* fails with a Conflict).  A failed call changes nothing in the store.     *)
(* obj is the object returned, err is "" for a nil error.                   *)
(***************************************************************************)

Outcome(st, calls, events, obj, changed, err) ==
    [store |-> st, calls |-> calls, events |-> events, obj |-> obj,
     changed |-> changed, err |-> err]

\* whether Create fails, and how the call is answered then
createFails(fault) == fault \in {"mutate", "mutateNil"}

\* whether Update fails, and how the call is answered then
updateFails(fault) == fault \in {"mutate", "mutateNil", "conflict"}

mutateAnswer(fault) == IF fault = "conflict" THEN "conflict" ELSE "error"

\* actual, as a failed Create or Update returns it
failedActual(fault) == IF fault = "mutateNil" THEN NoObj ELSE ZeroObj

\* a Conflict taken for settled: no error returned
updateErrorConflictDropped(out) ==
    IF out = "error" THEN "update" ELSE ""

\* the error returned after Update, by the answer of the call
updateError(out) == IF out = "ok" THEN "" ELSE "update"

\* the error of a failed Create dropped
createErrorDropped(out) == ""

\* the error returned after Create, by the answer of the call
createError(out) == IF out = "ok" THEN "" ELSE "create"

\* changed reported only for a Create or Update that succeeded
mutationChangedOnSuccess(answer) == answer = "ok"

\* the changed flag returned after a Create or Update: true, whatever the
\* call answered
mutationChanged(answer) == TRUE

\* every answer of Get taken for NotFound
IsNotFoundAlways(existing) == TRUE

\* errors.IsNotFound(err) after Get: the store holds no object of the name
IsNotFound(existing) == ~existing.present

\* the Get call as the log keeps it: the object it answered, or NotFound
getCall(name, existing) ==
    Call("get", name, existing, IF existing.present THEN "ok" ELSE "notfound")

\* a failed Create that is not reported
createFailedSilent(name) == <<>>

\* recorder.Warningf after a failed Create
createFailedEvents(name) == <<Event("StorageVersionMigrationCreateFailed", name)>>

applyStorageVersionMigration(st, file, labels, asset, fault) ==
    LET required == Required(file, labels)
        name == required.name
        existing == st[name]
        existingCopy == EnsureObjectMeta(existing, required)
        modified == existingCopy # existing \/ SpecDiffers(existingCopy, required)
        sent == UpdateBody(existing, existingCopy, required)
    IN  IF asset = "missing" THEN Outcome(st, <<>>, <<>>, NoObj, FALSE, "missing")
        ELSE IF asset = "undecodable" THEN Outcome(st, <<>>, <<>>, NoObj, FALSE, "decode")
        ELSE IF asset = "invalid" THEN Outcome(st, <<>>, <<>>, NoObj, FALSE, "invalid")
        ELSE IF fault = "get"
        THEN Outcome(st, <<Call("get", name, NoObj, "error")>>, <<>>, NoObj, FALSE, "get")
        ELSE IF IsNotFound(existing)
        THEN IF createFails(fault)
             THEN Outcome(st,
                          <<getCall(name, existing),
                            Call("create", name, CreateBody(required), mutateAnswer(fault))>>,
                          createFailedEvents(name),
                          failedActual(fault), mutationChanged(mutateAnswer(fault)),
                          createError(mutateAnswer(fault)))
             ELSE Outcome([st EXCEPT ![name] = CreateBody(required)],
                          <<getCall(name, existing),
                            Call("create", name, CreateBody(required), "ok")>>,
                          <<Event("StorageVersionMigrationCreated", name)>>,
                          CreateBody(required), mutationChanged("ok"), createError("ok"))
        ELSE IF ~modified
        THEN Outcome(st, <<getCall(name, existing)>>, <<>>, existing, FALSE, "")
        ELSE IF updateFails(fault)
        THEN Outcome(st,
                     <<getCall(name, existing),
                       Call("update", sent.name, sent, mutateAnswer(fault))>>,
                     <<Event("StorageVersionMigrationUpdateFailed", sent.name)>>,
                     failedActual(fault), mutationChanged(mutateAnswer(fault)),
                     updateError(mutateAnswer(fault)))
        ELSE Outcome([st EXCEPT ![sent.name] = sent],
                     <<getCall(name, existing),
                       Call("update", sent.name, sent, "ok")>>,
                     <<Event("StorageVersionMigrationUpdated", sent.name)>>,
                     sent, mutationChanged("ok"), updateError("ok"))

\* NotFound returned like any other error
deleteErrorStrict(out) ==
    IF out \in {"notfound", "error"} THEN "delete" ELSE ""

\* every error of Delete dropped
deleteErrorDropped(out) == ""

\* the error removeStorageVersionMigration returns for the answer of Delete:
\* NotFound is no error
deleteError(out) ==
    IF out = "notfound" THEN "" ELSE IF out = "error" THEN "delete" ELSE ""

\* the answer of Delete(name)
deleteAnswer(st, name, fault) ==
    IF fault \in {"mutate", "mutateNil"} THEN "error"
    ELSE IF ~st[name].present THEN "notfound"
    ELSE "ok"

removeStorageVersionMigration(st, file, labels, asset, fault) ==
    LET required == Required(file, labels)
        name == required.name
    IN  IF asset = "missing" THEN Outcome(st, <<>>, <<>>, NoObj, FALSE, "missing")
        ELSE IF asset = "undecodable" THEN Outcome(st, <<>>, <<>>, NoObj, FALSE, "decode")
        ELSE IF asset = "invalid" THEN Outcome(st, <<>>, <<>>, NoObj, FALSE, "invalid")
        ELSE LET out == deleteAnswer(st, name, fault)
             IN  Outcome(IF out = "ok" THEN [st EXCEPT ![name] = NoObj] ELSE st,
                         <<Call("delete", name, NoObj, out)>>, <<>>, NoObj, FALSE,
                         deleteError(out))

(***************************************************************************)
(* The loops over migrationRequestFiles.  acc carries the store, the calls, *)
(* the events, the errors collected, and the object and the changed flag   *)
(* each file returned (the loops drop these two).                           *)
(***************************************************************************)

Acc(st, calls, events, errs, objs, changed) ==
    [store |-> st, calls |-> calls, events |-> events, errs |-> errs, objs |-> objs,
     changed |-> changed]

RECURSIVE applyFrom(_, _, _, _, _)
\* applyStorageVersionMigrations from file i on: every file is tried, the
\* errors are appended to errs
applyFrom(i, acc, labels, assets, faults) ==
    IF i > Len(migrationRequestFiles) THEN acc
    ELSE LET r == applyStorageVersionMigration(acc.store, migrationRequestFiles[i],
                                               labels, assets[i], faults[i])
         IN  applyFrom(i + 1,
                       Acc(r.store, acc.calls \o r.calls, acc.events \o r.events,
                           IF r.err # "" THEN Append(acc.errs, r.err) ELSE acc.errs,
                           Append(acc.objs, r.obj), Append(acc.changed, r.changed)),
                       labels, assets, faults)

RECURSIVE applyFromFailFast(_, _, _, _, _)
\* a loop that returns at the first error
applyFromFailFast(i, acc, labels, assets, faults) ==
    IF i > Len(migrationRequestFiles) THEN acc
    ELSE LET r == applyStorageVersionMigration(acc.store, migrationRequestFiles[i],
                                               labels, assets[i], faults[i])
             next == Acc(r.store, acc.calls \o r.calls, acc.events \o r.events,
                         IF r.err # "" THEN Append(acc.errs, r.err) ELSE acc.errs,
                         Append(acc.objs, r.obj), Append(acc.changed, r.changed))
         IN  IF r.err # "" THEN next
             ELSE applyFromFailFast(i + 1, next, labels, assets, faults)

applyStorageVersionMigrationsFailFast(st, labels, assets, faults) ==
    applyFromFailFast(1, Acc(st, <<>>, <<>>, <<>>, <<>>, <<>>), labels, assets, faults)

applyStorageVersionMigrations(st, labels, assets, faults) ==
    applyFrom(1, Acc(st, <<>>, <<>>, <<>>, <<>>, <<>>), labels, assets, faults)

RECURSIVE removeFrom(_, _, _, _, _)
\* removeStorageVersionMigrations from file i on: the first error is returned
\* and ends the loop
removeFrom(i, acc, labels, assets, faults) ==
    IF i > Len(migrationRequestFiles) THEN acc
    ELSE LET r == removeStorageVersionMigration(acc.store, migrationRequestFiles[i],
                                                labels, assets[i], faults[i])
             next == Acc(r.store, acc.calls \o r.calls, acc.events \o r.events,
                         IF r.err # "" THEN Append(acc.errs, r.err) ELSE acc.errs,
                         Append(acc.objs, r.obj), Append(acc.changed, r.changed))
         IN  IF r.err # "" THEN next
             ELSE removeFrom(i + 1, next, labels, assets, faults)

removeStorageVersionMigrations(st, labels, assets, faults) ==
    removeFrom(1, Acc(st, <<>>, <<>>, <<>>, <<>>, <<>>), labels, assets, faults)

(***************************************************************************)
(* sync                                                                     *)
(***************************************************************************)

\* the condition is looked up by type and its status is not read
IsStatusConditionPresent(conditions, type) ==
    \E c \in conditions : c.type = type

\* meta.IsStatusConditionTrue
IsStatusConditionTrue(conditions, type) ==
    \E c \in conditions : c.type = type /\ c.status = "True"

\* a check that takes NotFound for supported
\* every error of the CRD's Get taken for NotFound
supportErrorSwallowed(crdPresent, crdFault) ==
    IF crdFault \/ ~crdPresent THEN "false" ELSE "true"

supportAlways(crdPresent, crdFault) ==
    IF crdFault THEN "error" ELSE "true"

\* supportStorageVersionMigration: "true", "false" (NotFound) or "error"
supportStorageVersionMigration(crdPresent, crdFault) ==
    IF crdFault THEN "error"
    ELSE IF ~crdPresent THEN "false"
    ELSE "true"

\* what a sync did: the key, the return statement it reached (at), the error
\* it returned (errs, empty for nil), the StorageVersionMigration calls and the
\* events in order, the AddAfter calls (requeue), and the object and the changed
\* flag each file returned
Log(key, at, errs, calls, events, requeue, objs, changed) ==
    [key |-> key, at |-> at, errs |-> errs, calls |-> calls, events |-> events,
     requeue |-> requeue, objs |-> objs, changed |-> changed]

NoLog == Log("", "none", <<>>, <<>>, <<>>, <<>>, <<>>, <<>>)

\* a wait for Applied that does not ask for another sync
addAfterNever(at, key) == <<>>

\* AddAfter called on every path that returns nil
addAfterAlways(at, key) ==
    IF at \in {"notFound", "unsupported", "wait"}
    THEN <<[key |-> key, delay |-> RequeueDelay]>> ELSE <<>>

\* AddAfter called on the error paths too
addAfterOnError(at, key) ==
    IF at \in {"wait", "crdError", "listerError"}
    THEN <<[key |-> key, delay |-> RequeueDelay]>> ELSE <<>>

\* the calls of controllerContext.Queue().AddAfter a sync makes, by the return
\* statement it reaches
addAfter(at, key) ==
    IF at = "wait" THEN <<[key |-> key, delay |-> RequeueDelay]>> ELSE <<>>

\* the CRD looked up before the ClusterManager is
syncBranchSupportFirst(clusterManager, listerFault, supported) ==
    IF listerFault THEN "listerError"
    ELSE IF supported = "error" THEN "crdError"
    ELSE IF supported = "false" THEN "unsupported"
    ELSE IF ~clusterManager.present THEN "notFound"
    ELSE IF clusterManager.deleting THEN "remove"
    ELSE IF ~IsStatusConditionTrue(clusterManager.conditions, clusterManagerApplied)
    THEN "wait"
    ELSE "apply"

\* the Applied condition tested before the deletion timestamp
syncBranchAppliedFirst(clusterManager, listerFault, supported) ==
    IF listerFault THEN "listerError"
    ELSE IF ~clusterManager.present THEN "notFound"
    ELSE IF supported = "error" THEN "crdError"
    ELSE IF supported = "false" THEN "unsupported"
    ELSE IF ~IsStatusConditionTrue(clusterManager.conditions, clusterManagerApplied)
    THEN "wait"
    ELSE IF clusterManager.deleting THEN "remove"
    ELSE "apply"

\* the return statement a sync reaches, in the order sync tests for them
syncBranch(clusterManager, listerFault, supported) ==
    IF listerFault THEN "listerError"
    ELSE IF ~clusterManager.present THEN "notFound"
    ELSE IF supported = "error" THEN "crdError"
    ELSE IF supported = "false" THEN "unsupported"
    ELSE IF clusterManager.deleting THEN "remove"
    ELSE IF ~IsStatusConditionTrue(clusterManager.conditions, clusterManagerApplied)
    THEN "wait"
    ELSE "apply"

\* the result of sync(key) on the hub as it is: [store, log]
sync(key, st, cms, crdPresent, labels, listerFault, crdFault, assets, faults) ==
    LET clusterManager == cms[key]
        supported == supportStorageVersionMigration(crdPresent, crdFault)
        at == syncBranch(clusterManager, listerFault, supported)
        removed == removeStorageVersionMigrations(st, labels, assets, faults)
        applied == applyStorageVersionMigrations(st, labels, assets, faults)
        Quiet(errs) ==
            [store |-> st,
             log |-> Log(key, at, errs, <<>>, <<>>, addAfter(at, key), <<>>, <<>>)]
    IN  IF at = "listerError" THEN Quiet(<<"lister">>)
        ELSE IF at = "notFound" THEN Quiet(<<>>)
        ELSE IF at = "crdError" THEN Quiet(<<"crd">>)
        ELSE IF at = "unsupported" THEN Quiet(<<>>)
        ELSE IF at = "remove"
        THEN [store |-> removed.store,
              log |-> Log(key, "remove", removed.errs, removed.calls, removed.events,
                          addAfter(at, key), removed.objs, removed.changed)]
        ELSE IF at = "wait" THEN Quiet(<<>>)
        ELSE [store |-> applied.store,
              log |-> Log(key, "apply", applied.errs, applied.calls, applied.events,
                          addAfter(at, key), applied.objs, applied.changed)]

\* what the next sync may read of the sync before it
Summary(l) ==
    [at |-> l.at, errs |-> l.errs, changed |-> l.changed,
     calls |-> [i \in 1..Len(l.calls) |->
                  [verb |-> l.calls[i].verb, name |-> l.calls[i].name,
                   out |-> l.calls[i].out]]]

(***************************************************************************)
(* Inputs                                                                   *)
(***************************************************************************)

\* the embedded manifests are read and decoded without error
AssetOutcomes == {"ok"}
StoreFaults == {"none", "get", "mutate"}
FileIndexes == 1..Len(migrationRequestFiles)
NoStoreFaults == [i \in FileIndexes |-> "none"]

\* the calls that fail in one sync: the lister's Get, the CRD's Get, and per file
\* a call on the StorageVersionMigration; a call that fails ends the sync or the
\* file, so a fault behind it names no call
\* the lister reads the informer's cache: the one error it gives is NotFound
ListerFaults == {FALSE}

SyncFaults ==
    {f \in [lister : ListerFaults, crd : BOOLEAN, files : [FileIndexes -> StoreFaults]] :
        /\ f.lister => ~f.crd
        /\ (f.lister \/ f.crd) => f.files = NoStoreFaults}

\* the objects somebody else writes under a subordinate's name
ExternalObjects(name) ==
    {StorageVersionMigration(name, s, l, a) :
        s \in SpecVals, l \in LabelMaps, a \in AnnotationMaps}

UnrelatedObject == StorageVersionMigration(UnrelatedName, "managedclustersets", NoLabels, NoAnnotations)

(***************************************************************************)
(* Actions                                                                  *)
(***************************************************************************)

\* the scheduler at start: nothing queued, no worker running
SchedulerIdle ==
    /\ queue = <<>>
    /\ dirty = {}
    /\ running = [w \in Workers |-> ""]
    /\ waitingForAdd = [k \in QueueKeys |-> {}]
    /\ unserved = {}

\* what no write of conditions did
NoStatusLog == [op |-> "none", fresh |-> FALSE, writes |-> 0, kept |-> {}, flipped |-> {}]

\* no sync running call by call, no shutdown
NoReconcile == [pc |-> "idle", key |-> "", plan |-> <<>>, inflight |-> <<>>, errs |-> <<>>]

CancelIdle == ctxDone = FALSE /\ reconcile = NoReconcile

\* no Klusterlet yet: no secret, no pod, no condition, no generation
KlusterletIdle ==
    /\ signals = [bootstrapSecret |-> FALSE, hubKubeConfig |-> FALSE,
                  available |-> [d \in DeploymentNames |-> 0]]
    /\ klusterletConditions = <<>>
    /\ now = 0
    /\ statusLog = NoStatusLog
    /\ subordinates = [p \in Pairs |-> [generation |-> 0, drifted |-> FALSE]]
    /\ generations = <<>>
    /\ recorded = [p \in Pairs |-> 0]

Init ==
    /\ store = [n \in Names |-> IF n = UnrelatedName THEN UnrelatedObject ELSE NoObj]
    /\ clusterManagers = [k \in Keys |-> NoClusterManager]
    /\ crd = FALSE
    /\ manifestLabels \in ManifestLabelMaps
    /\ log = NoLog
    /\ prev = Summary(NoLog)
    /\ parity = 0
    /\ SchedulerIdle
    /\ KlusterletIdle
    /\ CancelIdle

\* one invocation of sync for a queue key, with what its calls answer
SyncWith(key, assets, fault) ==
    LET r == sync(key, store, clusterManagers, crd, manifestLabels,
                  fault.lister, fault.crd, assets, fault.files)
    IN  /\ store' = r.store
        /\ log' = r.log
        /\ prev' = Summary(log)
        /\ parity' = 1 - parity
        /\ UNCHANGED <<clusterManagers, crd, manifestLabels>>
        /\ UNCHANGED <<schedVars, statusVars, trackerVars, cancelVars>>

Sync ==
    \E key \in Keys, assets \in [FileIndexes -> AssetOutcomes], fault \in SyncFaults :
        SyncWith(key, assets, fault)

\* a sync none of whose calls fails
CleanSync ==
    \E key \in Keys, assets \in [FileIndexes -> AssetOutcomes] :
        SyncWith(key, assets, [lister |-> FALSE, crd |-> FALSE, files |-> NoStoreFaults])

\* the API consumer creates a ClusterManager
CreateClusterManager ==
    \E key \in Keys :
        /\ ~clusterManagers[key].present
        /\ clusterManagers' = [clusterManagers EXCEPT ![key] = ClusterManager(FALSE, {})]
        /\ log' = NoLog /\ prev' = Summary(NoLog) /\ parity' = 0
        /\ UNCHANGED <<store, crd, manifestLabels>>
        /\ UNCHANGED <<schedVars, statusVars, trackerVars, cancelVars>>

\* the cluster manager controller writes the status conditions
UpdateClusterManagerStatus ==
    \E key \in Keys, conditions \in ConditionSets :
        /\ clusterManagers[key].present
        /\ conditions # clusterManagers[key].conditions
        /\ clusterManagers' = [clusterManagers EXCEPT ![key].conditions = conditions]
        /\ log' = NoLog /\ prev' = Summary(NoLog) /\ parity' = 0
        /\ UNCHANGED <<store, crd, manifestLabels>>
        /\ UNCHANGED <<schedVars, statusVars, trackerVars, cancelVars>>

\* the API consumer deletes a ClusterManager: its deletion timestamp is set
DeleteClusterManager ==
    \E key \in Keys :
        /\ clusterManagers[key].present
        /\ ~clusterManagers[key].deleting
        /\ clusterManagers' = [clusterManagers EXCEPT ![key].deleting = TRUE]
        /\ log' = NoLog /\ prev' = Summary(NoLog) /\ parity' = 0
        /\ UNCHANGED <<store, crd, manifestLabels>>
        /\ UNCHANGED <<schedVars, statusVars, trackerVars, cancelVars>>

\* the last finalizer is removed and the ClusterManager is gone
FinalizeClusterManager ==
    \E key \in Keys :
        /\ clusterManagers[key].present
        /\ clusterManagers[key].deleting
        /\ clusterManagers' = [clusterManagers EXCEPT ![key] = NoClusterManager]
        /\ log' = NoLog /\ prev' = Summary(NoLog) /\ parity' = 0
        /\ UNCHANGED <<store, crd, manifestLabels>>
        /\ UNCHANGED <<schedVars, statusVars, trackerVars, cancelVars>>

\* the StorageVersionMigration CRD is installed or removed
ToggleCRD ==
    /\ crd' = ~crd
    /\ log' = NoLog /\ prev' = Summary(NoLog) /\ parity' = 0
    /\ UNCHANGED <<store, clusterManagers, manifestLabels>>
    /\ UNCHANGED <<schedVars, statusVars, trackerVars, cancelVars>>

\* somebody else creates or overwrites a StorageVersionMigration
ExternalWrite ==
    \E name \in SubordinateNames : \E obj \in ExternalObjects(name) :
        /\ obj # store[name]
        /\ store' = [store EXCEPT ![name] = obj]
        /\ log' = NoLog /\ prev' = Summary(NoLog) /\ parity' = 0
        /\ UNCHANGED <<clusterManagers, crd, manifestLabels>>
        /\ UNCHANGED <<schedVars, statusVars, trackerVars, cancelVars>>

\* somebody else deletes a subordinate StorageVersionMigration
ExternalDelete ==
    \E name \in SubordinateNames :
        /\ store[name].present
        /\ store' = [store EXCEPT ![name] = NoObj]
        /\ log' = NoLog /\ prev' = Summary(NoLog) /\ parity' = 0
        /\ UNCHANGED <<clusterManagers, crd, manifestLabels>>
        /\ UNCHANGED <<schedVars, statusVars, trackerVars, cancelVars>>

Next ==
    \/ Sync
    \/ CreateClusterManager
    \/ UpdateClusterManagerStatus
    \/ DeleteClusterManager
    \/ FinalizeClusterManager
    \/ ToggleCRD
    \/ ExternalWrite
    \/ ExternalDelete

Spec == Init /\ [][Next]_vars

\* a hub left as somebody else wrote it: any subordinates, the CRD installed,
\* every ClusterManager Applied; each of these states is one Spec reaches
DriftedInit ==
    /\ \E sets \in ExternalObjects(SetsName) \cup {NoObj},
          bindings \in ExternalObjects(BindingsName) \cup {NoObj} :
          store = [n \in Names |->
                     IF n = SetsName THEN sets
                     ELSE IF n = BindingsName THEN bindings
                     ELSE UnrelatedObject]
    /\ clusterManagers =
          [k \in Keys |->
              ClusterManager(FALSE, {[type |-> clusterManagerApplied, status |-> "True"]})]
    /\ crd = TRUE
    /\ manifestLabels \in ManifestLabelMaps
    /\ log = NoLog
    /\ prev = Summary(NoLog)
    /\ parity = 0
    /\ SchedulerIdle
    /\ KlusterletIdle
    /\ CancelIdle

\* the store faults, told apart by the error of a failing Update: a Conflict
\* (the object changed since it was read) or another error
ConflictFaults == StoreFaults \cup {"conflict"}

\* one invocation of sync whose Update may fail with a Conflict
SyncUnderConflict ==
    \E key \in Keys, files \in [FileIndexes -> ConflictFaults] :
        SyncWith(key, [i \in FileIndexes |-> "ok"],
                 [lister |-> FALSE, crd |-> FALSE, files |-> files])

\* a drifted hub whose subordinates carry no annotation
ResyncInit ==
    /\ DriftedInit
    /\ \A n \in SubordinateNames : store[n].annotations = NoAnnotations

\* the drifted hub, synced again and again while others update the subordinates
ResyncSpec == ResyncInit /\ [][SyncUnderConflict]_vars

\* a sync runs: every sync, and no other step, changes parity
Resynced == parity' = 1 - parity

\* from there on nobody but the controller acts, and it is synced again and
\* again: the next sync is never put off for ever
SyncLoopSpec == DriftedInit /\ [][Sync]_vars /\ WF_parity(Resynced)

(***************************************************************************)
(* The two loops called on their own, with an asset function that may fail  *)
(* (manifests is a parameter of applyStorageVersionMigration and of         *)
(* removeStorageVersionMigration) and a client that may hand back nil next  *)
(* to an error.                                                             *)
(***************************************************************************)

AllAssetOutcomes == {"ok", "missing", "undecodable", "invalid"}
ApplierFaults == ConflictFaults \cup {"mutateNil"}

\* what one call of a loop is given: per file what the asset function and the
\* decoder give, and the store call that fails; a file that is not decoded
\* issues no call, so no fault is named for it
ApplierInputs ==
    {in \in [assets : [FileIndexes -> AllAssetOutcomes],
             faults : [FileIndexes -> ApplierFaults]] :
        \A i \in FileIndexes : in.assets[i] # "ok" => in.faults[i] = "none"}

\* what a call of a loop did, with what it was given
ApplierLog(at, in, r) ==
    [key |-> "", at |-> at, errs |-> r.errs, calls |-> r.calls, events |-> r.events,
     requeue |-> <<>>, objs |-> r.objs, changed |-> r.changed, assets |-> in.assets]

\* applyStorageVersionMigrations(ctx, recorder)
Apply ==
    \E in \in ApplierInputs :
        LET r == applyStorageVersionMigrations(store, manifestLabels, in.assets, in.faults)
        IN  /\ store' = r.store
            /\ log' = ApplierLog("apply", in, r)
            /\ UNCHANGED <<clusterManagers, crd, manifestLabels, prev, parity>>
            /\ UNCHANGED <<schedVars, statusVars, trackerVars, cancelVars>>

\* removeStorageVersionMigrations(ctx)
Remove ==
    \E in \in ApplierInputs :
        LET r == removeStorageVersionMigrations(store, manifestLabels, in.assets, in.faults)
        IN  /\ store' = r.store
            /\ log' = ApplierLog("remove", in, r)
            /\ UNCHANGED <<clusterManagers, crd, manifestLabels, prev, parity>>
            /\ UNCHANGED <<schedVars, statusVars, trackerVars, cancelVars>>

ApplierNext == Apply \/ Remove

ApplierSpec == DriftedInit /\ [][ApplierNext]_vars

(***************************************************************************)
(* The reconcile scheduler: the controller factory.New() builds, run with   *)
(* Workers workers over one deduplicating, delaying work queue.  Informer   *)
(* events add the name of the ClusterManager; a worker takes the key at the *)
(* head of the queue, runs sync for it and marks it done; a sync that       *)
(* returns an error is added again with backoff, AddAfter adds the key      *)
(* again after its delay.                                                   *)
(***************************************************************************)

\* a key function that gives every ClusterManager the same key
queueKeyConstant(name) == "cluster-manager"

\* WithInformersQueueKeyFunc: the key of an object is its name
queueKey(name) == name

\* the keys sync is running for
Processing == {running[w] : w \in Workers} \ {""}

\* an add that queues the key also while a worker runs it
addWhileProcessing(q, d, item) ==
    IF item \in d THEN [queue |-> q, dirty |-> d]
    ELSE [queue |-> Append(q, item), dirty |-> d \cup {item}]

\* Queue().Add(item): dropped when the key is dirty already; a key a worker is
\* running is only marked dirty
add(q, d, item) ==
    IF item \in d THEN [queue |-> q, dirty |-> d]
    ELSE IF item \in Processing THEN [queue |-> q, dirty |-> d \cup {item}]
    ELSE [queue |-> Append(q, item), dirty |-> d \cup {item}]

\* a done that forgets the adds made during the run
doneForgetful(q, d, item) == q

\* Queue().Done(item): the key is queued again when it was added during the run
done(q, d, item) == IF item \in d THEN Append(q, item) ELSE q

\* the delayed adds a finished run leaves: AddAfter as sync called it, and
\* AddRateLimited when sync returned an error
delaysOf(l) ==
    (IF l.requeue # <<>> THEN {"fixed"} ELSE {})
        \cup (IF l.errs # <<>> THEN {"backoff"} ELSE {})

\* what the ClusterManager of a key may be
ClusterManagerStates ==
    {NoClusterManager,
     ClusterManager(FALSE, {}),
     ClusterManager(FALSE, {[type |-> clusterManagerApplied, status |-> "True"]}),
     ClusterManager(TRUE, {})}

\* the calls that fail in a sync the scheduler runs
SchedulerFaults ==
    {[lister |-> FALSE, crd |-> c, files |-> NoStoreFaults] : c \in BOOLEAN}

SchedulerInit ==
    /\ store = [n \in Names |-> IF n = UnrelatedName THEN UnrelatedObject ELSE NoObj]
    /\ clusterManagers = [k \in QueueKeys |-> NoClusterManager]
    /\ crd = TRUE
    /\ manifestLabels = NoLabels
    /\ log = NoLog
    /\ prev = Summary(NoLog)
    /\ parity = 0
    /\ SchedulerIdle
    /\ KlusterletIdle
    /\ CancelIdle

\* an informer event: the ClusterManager was added, updated or deleted (or is
\* delivered again by a resync) and its key is added to the queue
Signal ==
    \E name \in QueueKeys, cm \in ClusterManagerStates :
        LET a == add(queue, dirty, queueKey(name))
        IN  /\ clusterManagers' = [clusterManagers EXCEPT ![name] = cm]
            /\ queue' = a.queue
            /\ dirty' = a.dirty
            /\ unserved' = unserved \cup {name}
            /\ UNCHANGED <<statusVars, trackerVars, cancelVars, store, crd, manifestLabels, log, prev, parity,
                           running, waitingForAdd>>

\* a worker takes the key at the head of the queue: Queue().Get()
Take ==
    \E w \in Workers :
        /\ running[w] = ""
        /\ queue # <<>>
        /\ running' = [running EXCEPT ![w] = Head(queue)]
        /\ queue' = Tail(queue)
        /\ dirty' = dirty \ {Head(queue)}
        /\ unserved' = unserved \ {Head(queue)}
        /\ UNCHANGED <<statusVars, trackerVars, cancelVars, store, clusterManagers, crd, manifestLabels, log, prev, parity,
                       waitingForAdd>>

\* the sync of worker w returns, with the calls of fault failing: its delayed
\* adds are set, the key is done
FinishWith(w, fault) ==
        /\ running[w] # ""
        /\ LET key == running[w]
               r == sync(key, store, clusterManagers, crd, manifestLabels,
                         fault.lister, fault.crd, [i \in FileIndexes |-> "ok"],
                         fault.files)
           IN  /\ store' = r.store
               /\ log' = r.log
               /\ waitingForAdd' =
                     [waitingForAdd EXCEPT ![key] = @ \cup delaysOf(r.log)]
               /\ running' = [running EXCEPT ![w] = ""]
               /\ queue' = done(queue, dirty, key)
        /\ UNCHANGED <<statusVars, trackerVars, cancelVars, clusterManagers, crd, manifestLabels, prev, parity,
                       dirty, unserved>>

\* the sync of a worker returns
Finish == \E w \in Workers, fault \in SchedulerFaults : FinishWith(w, fault)

\* the time of a delayed add comes: the key is added
TimerFires ==
    \E key \in QueueKeys :
        LET a == add(queue, dirty, key)
        IN  /\ waitingForAdd[key] # {}
            /\ waitingForAdd' = [waitingForAdd EXCEPT ![key] = {}]
            /\ queue' = a.queue
            /\ dirty' = a.dirty
            /\ UNCHANGED <<statusVars, trackerVars, cancelVars, store, clusterManagers, crd, manifestLabels, log, prev,
                           parity, running, unserved>>

SchedulerNext == Signal \/ Take \/ Finish \/ TimerFires

SchedulerSpec == SchedulerInit /\ [][SchedulerNext]_vars

\* the sync worker w runs returns: the one step that takes the key from w
WorkerReturns(w) ==
    running[w] # "" /\ running' = [running EXCEPT ![w] = ""]

\* a worker without a key takes the head of the queue: the one step that gives
\* a worker a key
WorkerTakes ==
    \E w \in Workers :
        /\ running[w] = "" /\ queue # <<>>
        /\ running' = [running EXCEPT ![w] = Head(queue)]

\* every sync returns, and a worker without a key does not leave the queue
\* waiting for ever
FairSchedulerSpec ==
    /\ SchedulerSpec
    /\ \A w \in Workers : WF_running(WorkerReturns(w))
    /\ WF_running(WorkerTakes)

\* the time of a delayed add of key comes: the one step that empties its
\* waiting adds
TimerDue(key) ==
    waitingForAdd[key] # {} /\ waitingForAdd' = [waitingForAdd EXCEPT ![key] = {}]

\* every sync returns, no worker leaves the queue waiting, every delay ends
Fairness ==
    /\ \A w \in Workers : WF_running(WorkerReturns(w))
    /\ WF_running(WorkerTakes)
    /\ \A key \in QueueKeys : WF_waitingForAdd(TimerDue(key))

(***************************************************************************)
(* Waiting for Applied.  The ClusterManager is created (the one event the   *)
(* informer delivers here); the cluster manager controller sets its Applied *)
(* condition, and the update event of that is taken not to come.  No call   *)
(* fails.                                                                   *)
(***************************************************************************)

NoFaults == [lister |-> FALSE, crd |-> FALSE, files |-> NoStoreFaults]

Applied(name) ==
    IsStatusConditionTrue(clusterManagers[name].conditions, clusterManagerApplied)

\* the informer's add event of a new ClusterManager
Created ==
    \E name \in QueueKeys :
        LET a == add(queue, dirty, queueKey(name))
        IN  /\ ~clusterManagers[name].present
            /\ clusterManagers' =
                  [clusterManagers EXCEPT ![name] = ClusterManager(FALSE, {})]
            /\ queue' = a.queue
            /\ dirty' = a.dirty
            /\ unserved' = unserved \cup {name}
            /\ UNCHANGED <<statusVars, trackerVars, cancelVars, store, crd, manifestLabels, log, prev, parity,
                           running, waitingForAdd>>

\* the lister shows the ClusterManager Applied; no key is added for it
AppliedSilently ==
    \E name \in QueueKeys :
        /\ clusterManagers[name] = ClusterManager(FALSE, {})
        /\ clusterManagers' =
              [clusterManagers EXCEPT ![name] =
                  ClusterManager(FALSE, {[type |-> clusterManagerApplied,
                                          status |-> "True"]})]
        /\ UNCHANGED <<statusVars, trackerVars, cancelVars, store, crd, manifestLabels, log, prev, parity, schedVars>>

FinishClean == \E w \in Workers : FinishWith(w, NoFaults)

PollNext == Created \/ AppliedSilently \/ Take \/ FinishClean \/ TimerFires

PollSpec == SchedulerInit /\ [][PollNext]_vars /\ Fairness

(***************************************************************************)
(* Recovery.  Every ClusterManager is Applied, the subordinates are absent  *)
(* or were rewritten by somebody else, the informer has delivered every     *)
(* ClusterManager once (the keys are queued) and delivers resyncs, and the  *)
(* calls on the store fail as they like.                                    *)
(***************************************************************************)

\* the subordinate of file i with the spec of the other manifest
Drifted(i) ==
    StorageVersionMigration(NameOfFile(migrationRequestFiles[i]),
                            SpecOfFile(migrationRequestFiles[3 - i]),
                            NoLabels, NoAnnotations)

RecoveryInit ==
    /\ \E sets \in {NoObj, Drifted(1)}, bindings \in {NoObj, Drifted(2)} :
          store = [n \in Names |->
                     IF n = SetsName THEN sets
                     ELSE IF n = BindingsName THEN bindings
                     ELSE UnrelatedObject]
    /\ clusterManagers =
          [k \in QueueKeys |->
              ClusterManager(FALSE, {[type |-> clusterManagerApplied, status |-> "True"]})]
    /\ crd = TRUE
    /\ manifestLabels = NoLabels
    /\ log = NoLog
    /\ prev = Summary(NoLog)
    /\ parity = 0
    /\ queue = <<"cluster-manager", "cluster-manager-2">>
    /\ dirty = QueueKeys
    /\ running = [w \in Workers |-> ""]
    /\ waitingForAdd = [k \in QueueKeys |-> {}]
    /\ unserved = QueueKeys
    /\ KlusterletIdle
    /\ CancelIdle

\* the informer delivers a ClusterManager again: its key is added
Resync ==
    \E name \in QueueKeys :
        LET a == add(queue, dirty, queueKey(name))
        IN  /\ queue' = a.queue
            /\ dirty' = a.dirty
            /\ unserved' = unserved \cup {name}
            /\ UNCHANGED <<statusVars, trackerVars, cancelVars, store, clusterManagers, crd, manifestLabels, log, prev,
                           parity, running, waitingForAdd>>

RecoveryFaults ==
    {[lister |-> FALSE, crd |-> FALSE, files |-> f] : f \in [FileIndexes -> StoreFaults]}

FinishFaulty == \E w \in Workers, fault \in RecoveryFaults : FinishWith(w, fault)

RecoveryNext == Resync \/ Take \/ FinishFaulty \/ TimerFires

RecoverySpec == RecoveryInit /\ [][RecoveryNext]_vars /\ Fairness

(***************************************************************************)
(* The status of a Klusterlet.  The status controller reads the bootstrap   *)
(* secret, the hub kubeconfig secret and the two agent deployments, makes   *)
(* one condition per category of them and writes the conditions that       *)
(* differ from the stored ones; the klusterlet controller writes Applied.   *)
(***************************************************************************)

klusterletHubConnectionDegraded == "HubConnectionDegraded"
klusterletRegistrationDesiredDegraded == "RegistrationDesiredDegraded"
klusterletWorkDesiredDegraded == "WorkDesiredDegraded"
klusterletAvailable == "Available"
klusterletApplied == "Applied"

DegradedCategories ==
    {klusterletHubConnectionDegraded, klusterletRegistrationDesiredDegraded,
     klusterletWorkDesiredDegraded}

\* the signals of a category, in the order they are declared
SignalsOf(category) ==
    IF category = klusterletHubConnectionDegraded
    THEN <<"BootstrapSecret", "HubKubeConfig">>
    ELSE IF category = klusterletRegistrationDesiredDegraded
    THEN <<RegistrationDeployment>>
    ELSE <<WorkDeployment>>

\* every state of the signals
SignalStates ==
    [bootstrapSecret : BOOLEAN, hubKubeConfig : BOOLEAN,
     available : [DeploymentNames -> {0, 1, Replicas}]]

\* whether a signal reports no problem: the secret is there and works, the
\* deployment has all its pods available
Healthy(signal, env) ==
    IF signal = "BootstrapSecret" THEN env.bootstrapSecret
    ELSE IF signal = "HubKubeConfig" THEN env.hubKubeConfig
    ELSE Replicas - env.available[signal] <= 0

\* a signal that names its problem also when it has none
signalReasonAlwaysFailing(signal, ok) ==
    IF signal = "BootstrapSecret" THEN "BootstrapSecretMissing"
    ELSE IF signal = "HubKubeConfig" THEN "HubKubeConfigMissing"
    ELSE "UnavailablePods"

\* the reason a signal gives: its problem, or its own Functional token
signalReason(signal, ok) ==
    IF signal = "BootstrapSecret"
    THEN (IF ok THEN "BootstrapSecretFunctional" ELSE "BootstrapSecretMissing")
    ELSE IF signal = "HubKubeConfig"
    THEN (IF ok THEN "HubKubeConfigFunctional" ELSE "HubKubeConfigMissing")
    ELSE (IF ok THEN "DeploymentsFunctional" ELSE "UnavailablePods")

\* every category Functional under the name of its first signal
functionalReasonOfSignal(category) == signalReason(SignalsOf(category)[1], TRUE)

\* the reason of a category without a problem
functionalReason(category) ==
    IF category = klusterletHubConnectionDegraded THEN "HubConnectionFunctional"
    ELSE "DeploymentsFunctional"

\* strings.Join(tokens, ",")
RECURSIVE Join(_)
Join(tokens) ==
    IF tokens = <<>> THEN ""
    ELSE IF Len(tokens) = 1 THEN tokens[1]
    ELSE tokens[1] \o "," \o Join(Tail(tokens))

\* a condition before it is stored; the message says what the reason says
Condition(type, status, reason, message) ==
    [type |-> type, status |-> status, reason |-> reason, message |-> message]

\* the Degraded condition of a category: True when a signal has a problem, with
\* the reasons of its signals joined in their order
degradedCondition(category, env) ==
    LET sigs == SignalsOf(category)
        reasons == [i \in 1..Len(sigs) |-> signalReason(sigs[i], Healthy(sigs[i], env))]
    IN  IF \E i \in 1..Len(sigs) : ~Healthy(sigs[i], env)
        THEN Condition(category, "True", Join(reasons), Join(reasons))
        ELSE Condition(category, "False", functionalReason(category),
                       functionalReason(category))

\* Available only when no deployment misses a pod
availableConditionWhenComplete(env) ==
    IF \A d \in DeploymentNames : env.available[d] >= Replicas
    THEN Condition(klusterletAvailable, "True", "klusterletAvailable", "klusterletAvailable")
    ELSE Condition(klusterletAvailable, "False", "NoAvailablePods", "NoAvailablePods")

\* the Available condition: True when a deployment has an available pod
availableCondition(env) ==
    IF \E d \in DeploymentNames : env.available[d] > 0
    THEN Condition(klusterletAvailable, "True", "klusterletAvailable", "klusterletAvailable")
    ELSE Condition(klusterletAvailable, "False", "NoAvailablePods", "NoAvailablePods")

\* what the klusterlet controller reports of its apply
ApplyOutcomes == {"ok", "forbidden", "timeout"}

appliedCondition(outcome) ==
    IF outcome = "ok"
    THEN Condition(klusterletApplied, "True", "KlusterletApplied", "applied")
    ELSE Condition(klusterletApplied, "False", "KlusterletApplyFailed", outcome)

\* the conditions the status controller makes, in the order it sets them
aggregate(env) ==
    <<degradedCondition(klusterletHubConnectionDegraded, env),
      degradedCondition(klusterletRegistrationDesiredDegraded, env),
      degradedCondition(klusterletWorkDesiredDegraded, env),
      availableCondition(env)>>

\* the place of the condition of a type in the slice, 0 when it has none
IndexOfCondition(conds, type) ==
    IF \E i \in 1..Len(conds) : conds[i].type = type
    THEN CHOOSE i \in 1..Len(conds) :
            /\ conds[i].type = type
            /\ \A j \in 1..(i - 1) : conds[j].type # type
    ELSE 0

Stored(c, time) ==
    [type |-> c.type, status |-> c.status, reason |-> c.reason,
     message |-> c.message, lastTransitionTime |-> time]

\* a write that stamps the time whether the status changes or not
setStatusConditionStamping(conds, c, time) ==
    LET i == IndexOfCondition(conds, c.type)
    IN  IF i = 0 THEN Append(conds, Stored(c, time))
        ELSE [conds EXCEPT ![i] = Stored(c, time)]

\* a write that always adds an entry
setStatusConditionAppending(conds, c, time) == Append(conds, Stored(c, time))

\* SetStatusCondition: the entry of the type is added, or replaced with the
\* time kept unless the status changes
setStatusCondition(conds, c, time) ==
    LET i == IndexOfCondition(conds, c.type)
    IN  IF i = 0 THEN Append(conds, Stored(c, time))
        ELSE [conds EXCEPT ![i] =
                 Stored(c, IF conds[i].status # c.status THEN time
                           ELSE conds[i].lastTransitionTime)]

\* the conditions after the writes of news, one after the other
RECURSIVE setStatusConditions(_, _, _)
setStatusConditions(conds, news, time) ==
    IF news = <<>> THEN conds
    ELSE setStatusConditions(setStatusCondition(conds, Head(news), time),
                             Tail(news), time)

\* a status that is sent to the store whether it differs or not
statusChangedAlways(old, new) == TRUE

\* whether the new status differs from the stored one: only then it is sent
statusChanged(old, new) == old # new

\* the types whose write kept the status and changed reason or message, and
\* those whose write changed the status
KeptTypes(old, new) ==
    {old[i].type : i \in {j \in 1..Len(old) :
        LET k == IndexOfCondition(new, old[j].type)
        IN  /\ new[k].status = old[j].status
            /\ <<new[k].reason, new[k].message>> # <<old[j].reason, old[j].message>>}}

FlippedTypes(old, new) ==
    {old[i].type : i \in {j \in 1..Len(old) :
        new[IndexOfCondition(new, old[j].type)].status # old[j].status}}

StatusLog(op, fresh, old, new) ==
    [op |-> op, fresh |-> fresh,
     writes |-> IF statusChanged(old, new) THEN 1 ELSE 0,
     kept |-> KeptTypes(old, new), flipped |-> FlippedTypes(old, new)]

\* the Klusterlet was just created: no secret, no available pod, no condition
KlusterletInit ==
    /\ store = [n \in Names |-> IF n = UnrelatedName THEN UnrelatedObject ELSE NoObj]
    /\ clusterManagers = [k \in Keys |-> NoClusterManager]
    /\ crd = FALSE
    /\ manifestLabels = NoLabels
    /\ log = NoLog
    /\ prev = Summary(NoLog)
    /\ parity = 0
    /\ SchedulerIdle
    /\ KlusterletIdle
    /\ CancelIdle

mainVars == <<store, clusterManagers, crd, manifestLabels, log, prev, parity>>

\* a secret is created or deleted, or the available pods of a deployment
\* change; time goes on
SignalChanges ==
    /\ now < MaxTime
    /\ \E env \in SignalStates :
          /\ \/ /\ env.bootstrapSecret # signals.bootstrapSecret
                /\ env.hubKubeConfig = signals.hubKubeConfig
                /\ env.available = signals.available
             \/ /\ env.bootstrapSecret = signals.bootstrapSecret
                /\ env.hubKubeConfig # signals.hubKubeConfig
                /\ env.available = signals.available
             \/ /\ env.bootstrapSecret = signals.bootstrapSecret
                /\ env.hubKubeConfig = signals.hubKubeConfig
                /\ \E d \in DeploymentNames :
                      /\ env.available[d] # signals.available[d]
                      /\ \A e \in DeploymentNames \ {d} :
                            env.available[e] = signals.available[e]
          /\ signals' = env
    /\ now' = now + 1
    /\ statusLog' = [NoStatusLog EXCEPT !.op = "signal"]
    /\ UNCHANGED <<klusterletConditions, mainVars, schedVars, trackerVars, cancelVars>>

\* one sync of the status controller: the stored conditions with the
\* aggregated ones set, sent when they differ
StatusSync ==
    LET new == setStatusConditions(klusterletConditions, aggregate(signals), now)
    IN  /\ klusterletConditions' = new
        /\ statusLog' = StatusLog("status", TRUE, klusterletConditions, new)
        /\ UNCHANGED <<signals, now, mainVars, schedVars, trackerVars, cancelVars>>

\* the klusterlet controller reports its apply
ApplyReported ==
    \E outcome \in ApplyOutcomes :
        LET new == setStatusCondition(klusterletConditions, appliedCondition(outcome), now)
        IN  /\ klusterletConditions' = new
            /\ statusLog' = StatusLog("applied", statusLog.fresh, klusterletConditions, new)
            /\ UNCHANGED <<signals, now, mainVars, schedVars, trackerVars, cancelVars>>

StatusNext == SignalChanges \/ StatusSync \/ ApplyReported

StatusSpec == KlusterletInit /\ [][StatusNext]_vars

(***************************************************************************)
(* The generations of a Klusterlet.  Status.Generations keeps, per          *)
(* subordinate, the generation the klusterlet controller last saw of it; a  *)
(* subordinate is told from the others by its resource and its name.        *)
(***************************************************************************)

\* no entry: the nil FindGenerationStatus hands back
NoGeneration == [present |-> FALSE, resource |-> "", name |-> "", lastGeneration |-> 0]

\* NewGenerationStatus(gvr, object): the entry for the object as it is
NewGenerationStatus(resource, name, generation) ==
    [present |-> TRUE, resource |-> resource, name |-> name,
     lastGeneration |-> generation]

\* entries told apart by name alone
SameSubordinateByName(a, b) == a.name = b.name

\* two entries are of one subordinate: same resource, same name
SameSubordinate(a, b) == a.resource = b.resource /\ a.name = b.name

\* FindGenerationStatus(generations, generation): observe
FindGenerationStatus(gens, wanted) ==
    LET hits == SelectSeq(gens, LAMBDA g : SameSubordinate(g, wanted))
    IN  IF hits = <<>> THEN NoGeneration ELSE hits[1]

\* a record that adds an entry each time
SetGenerationStatusAppending(gens, new) == Append(gens, new)

\* SetGenerationStatus(&generations, generation): record
SetGenerationStatus(gens, new) ==
    IF FindGenerationStatus(gens, new).present
    THEN [i \in 1..Len(gens) |-> IF SameSubordinate(gens[i], new) THEN new ELSE gens[i]]
    ELSE Append(gens, new)

\* somebody else updates a subordinate: its generation goes up, its spec is
\* not the desired one
ManualUpdate ==
    \E p \in Pairs :
        /\ subordinates[p].generation > 0
        /\ subordinates[p].generation + 2 <= MaxGeneration
        /\ subordinates' =
              [subordinates EXCEPT ![p] = [generation |-> @.generation + 1,
                                           drifted |-> TRUE]]
        /\ UNCHANGED <<generations, recorded, statusVars, mainVars, schedVars, cancelVars>>

\* the generation of a subordinate after the klusterlet controller applied it:
\* created, updated when it drifted, left alone otherwise
appliedGeneration(sub) ==
    IF sub.generation = 0 THEN 1
    ELSE IF sub.drifted THEN sub.generation + 1
    ELSE sub.generation

\* the klusterlet controller applies a subordinate and records the generation
\* the store answers
ApplySubordinate(p) ==
    LET generation == appliedGeneration(subordinates[p])
    IN  /\ subordinates' =
              [subordinates EXCEPT ![p] = [generation |-> generation, drifted |-> FALSE]]
        /\ generations' =
              SetGenerationStatus(generations, NewGenerationStatus(p[1], p[2], generation))
        /\ recorded' = [recorded EXCEPT ![p] = generation]
        /\ UNCHANGED <<statusVars, mainVars, schedVars, cancelVars>>

KlusterletSync == \E p \in Pairs : ApplySubordinate(p)

TrackerNext == ManualUpdate \/ KlusterletSync

TrackerSpec == KlusterletInit /\ [][TrackerNext]_vars

(***************************************************************************)
(* Shutdown.  A sync runs call by call: the lookup of the CRD, then the     *)
(* calls on the subordinates its path makes.  Each call is given a context: *)
(* the context of the sync, which is cancelled at shutdown, or              *)
(* context.TODO(), which never is.  A call whose context is cancelled       *)
(* returns with an error at once and is not started; any other call is in   *)
(* flight until the store answers, which it may never do.                   *)
(***************************************************************************)

\* every call given the context of the sync
contextOfSync(verb) == "ctx"

\* the context a call is given, by the call
contextOf(verb) ==
    IF verb \in {"getCRD", "delete"} THEN "ctx" ELSE "TODO"

\* the calls sync makes on its way, in their order, when no call fails and
\* nobody else writes
callsOf(key, st, cms, crdPresent, labels) ==
    LET r == sync(key, st, cms, crdPresent, labels, FALSE, FALSE,
                  [i \in FileIndexes |-> "ok"], NoStoreFaults)
        lookup == IF r.log.at \in {"notFound", "listerError"} THEN <<>>
                  ELSE <<[verb |-> "getCRD", name |-> migrationRequestCRDName,
                          obj |-> NoObj, ctx |-> contextOf("getCRD")]>>
    IN  lookup \o [j \in 1..Len(r.log.calls) |->
                      [verb |-> r.log.calls[j].verb, name |-> r.log.calls[j].name,
                       obj |-> r.log.calls[j].obj,
                       ctx |-> contextOf(r.log.calls[j].verb)]]

\* what a call that the store answered leaves in the store
storeAfter(st, call) ==
    IF call.verb \in {"create", "update"} THEN [st EXCEPT ![call.name] = call.obj]
    ELSE IF call.verb = "delete" THEN [st EXCEPT ![call.name] = NoObj]
    ELSE st

\* sync returns at once when a call of the remove path or the lookup of the
\* CRD fails; a failed call of the apply path is noted and the next file applied
returnsAtError(call) == call.verb \in {"getCRD", "delete"}

\* whether a call is of the same file as the call before it
SameFile(a, b) == a.name = b.name

RECURSIVE nextFile(_, _)
nextFile(plan, call) ==
    IF plan = <<>> THEN plan
    ELSE IF SameFile(Head(plan), call) THEN nextFile(Tail(plan), call)
    ELSE plan

CancelInit ==
    /\ \E sets \in {NoObj, Required(SetsFile, NoLabels), Drifted(1)},
          bindings \in {NoObj, Required(BindingsFile, NoLabels)} :
          store = [n \in Names |->
                     IF n = SetsName THEN sets
                     ELSE IF n = BindingsName THEN bindings
                     ELSE UnrelatedObject]
    /\ clusterManagers \in [Keys -> ClusterManagerStates]
    /\ crd \in BOOLEAN
    /\ manifestLabels = NoLabels
    /\ log = NoLog
    /\ prev = Summary(NoLog)
    /\ parity = 0
    /\ SchedulerIdle
    /\ KlusterletIdle
    /\ CancelIdle

\* a worker starts sync for a key
Begin ==
    \E key \in Keys :
        /\ ~ctxDone
        /\ reconcile.pc = "idle"
        /\ reconcile' = [pc |-> "running", key |-> key,
                         plan |-> callsOf(key, store, clusterManagers, crd, manifestLabels),
                         inflight |-> <<>>, errs |-> <<>>]
        /\ UNCHANGED <<ctxDone, mainVars, schedVars, statusVars, trackerVars>>

\* sync makes its next call; with the context of the call cancelled the call
\* is not started and gives its error
IssueCall ==
    /\ reconcile.pc = "running"
    /\ reconcile.inflight = <<>>
    /\ reconcile.plan # <<>>
    /\ LET call == Head(reconcile.plan)
       IN  IF call.ctx = "ctx" /\ ctxDone
           THEN reconcile' =
                   [reconcile EXCEPT
                       !.plan = IF returnsAtError(call) THEN <<>> ELSE nextFile(@, call),
                       !.errs = Append(@, "canceled")]
           ELSE reconcile' =
                   [reconcile EXCEPT !.plan = Tail(@), !.inflight = <<call>>]
    /\ UNCHANGED <<ctxDone, mainVars, schedVars, statusVars, trackerVars>>

\* the store answers the call in flight
CallReturns ==
    /\ reconcile.inflight # <<>>
    /\ store' = storeAfter(store, reconcile.inflight[1])
    /\ reconcile' = [reconcile EXCEPT !.inflight = <<>>]
    /\ UNCHANGED <<ctxDone, clusterManagers, crd, manifestLabels, log, prev, parity,
                   schedVars, statusVars, trackerVars>>

\* the call in flight has the context of the sync and that is cancelled: the
\* call returns with the error of the context
CallCancelled ==
    /\ reconcile.inflight # <<>>
    /\ ctxDone
    /\ reconcile.inflight[1].ctx = "ctx"
    /\ reconcile' =
          [reconcile EXCEPT
              !.inflight = <<>>,
              !.plan = IF returnsAtError(reconcile.inflight[1]) THEN <<>>
                       ELSE nextFile(@, reconcile.inflight[1]),
              !.errs = Append(@, "canceled")]
    /\ UNCHANGED <<ctxDone, mainVars, schedVars, statusVars, trackerVars>>

\* sync has no call left and returns
Return ==
    /\ reconcile.pc = "running"
    /\ reconcile.inflight = <<>>
    /\ reconcile.plan = <<>>
    /\ reconcile' = [reconcile EXCEPT !.pc = "idle"]
    /\ UNCHANGED <<ctxDone, mainVars, schedVars, statusVars, trackerVars>>

\* the process shuts down: the context of the sync is cancelled
Cancel ==
    /\ ~ctxDone
    /\ ctxDone' = TRUE
    /\ UNCHANGED <<reconcile, mainVars, schedVars, statusVars, trackerVars>>

CancelNext == Begin \/ IssueCall \/ CallReturns \/ CallCancelled \/ Return \/ Cancel

\* sync goes on by itself and a cancelled context ends its calls; the store
\* need not answer
CancelSpec ==
    /\ CancelInit
    /\ [][CancelNext]_vars
    /\ WF_reconcile(IssueCall)
    /\ WF_reconcile(Return)
    /\ WF_reconcile(CallCancelled)

(***************************************************************************)
(* Reading the log                                                          *)
(***************************************************************************)

FileName(i) == NameOfFile(migrationRequestFiles[i])

CallsFor(calls, name) == SelectSeq(calls, LAMBDA c : c.name = name)

CountVerb(calls, verb) == Len(SelectSeq(calls, LAMBDA c : c.verb = verb))

Failed(calls) == \E j \in 1..Len(calls) : calls[j].out \in {"error", "conflict"}

Mutating(calls) == SelectSeq(calls, LAMBDA c : c.verb # "get")

\* the first call on name was a get that answered out
FirstGet(calls, name, out) ==
    LET mine == CallsFor(calls, name)
    IN  mine # <<>> /\ mine[1].verb = "get" /\ mine[1].out = out

\* a sync ran and every lookup it made of the ClusterManager and of the CRD
\* was answered
Looked == log.at \notin {"none", "listerError", "crdError"}

(***************************************************************************)
(* C1  Idempotence of apply: when the subordinate was absent, two applies   *)
(* in a row of the same file, with no failed call and nothing changed from  *)
(* outside in between, issue one create and no update in total, and return *)
(* changed = TRUE, then changed = FALSE.                                    *)
(***************************************************************************)

C1_Case(i) ==
    /\ prev.at = "apply" /\ log.at = "apply"
    /\ FirstGet(prev.calls, FileName(i), "notfound")
    /\ ~Failed(CallsFor(prev.calls, FileName(i)))
    /\ ~Failed(CallsFor(log.calls, FileName(i)))

C1_ApplyTwice ==
    \A i \in FileIndexes :
        C1_Case(i) =>
            LET both == CallsFor(prev.calls, FileName(i)) \o CallsFor(log.calls, FileName(i))
            IN  /\ CountVerb(both, "create") = 1
                /\ CountVerb(both, "update") = 0
                /\ prev.changed[i] = TRUE
                /\ log.changed[i] = FALSE

C1_Witness == \E i \in FileIndexes : C1_Case(i)

(***************************************************************************)
(* C2  Update-on-drift: when the stored subordinate has another spec than   *)
(* the required one, apply issues one update whose object has the required *)
(* spec, and the labels and annotations only the stored copy has are kept.  *)
(***************************************************************************)

C2_Case(i) ==
    /\ log.at = "apply"
    /\ FirstGet(log.calls, FileName(i), "ok")
    /\ CallsFor(log.calls, FileName(i))[1].obj.spec # SpecOfFile(migrationRequestFiles[i])
    /\ ~Failed(CallsFor(log.calls, FileName(i)))

C2_UpdateRestoresSpec ==
    \A i \in FileIndexes :
        C2_Case(i) =>
            LET mine == CallsFor(log.calls, FileName(i))
                required == Required(migrationRequestFiles[i], manifestLabels)
            IN  /\ Len(mine) = 2
                /\ mine[2].verb = "update"
                /\ mine[2].obj.spec = required.spec
                /\ store[FileName(i)].spec = required.spec
                /\ \A k \in LabelKeys :
                      required.labels[k] = Absent => mine[2].obj.labels[k] = mine[1].obj.labels[k]
                /\ \A k \in AnnotationKeys :
                      required.annotations[k] = Absent =>
                          mine[2].obj.annotations[k] = mine[1].obj.annotations[k]

(***************************************************************************)
(* C3  Convergence after drift: when from some point on the controller is   *)
(* only synced on the apply path, with no failed call and no change from    *)
(* outside, the store reaches a fixed point: both subordinates have the     *)
(* required spec and an apply changes nothing.                              *)
(***************************************************************************)

QuietApply == log.at = "apply" /\ log.errs = <<>>

FixedPoint ==
    /\ \A i \in FileIndexes :
          /\ store[FileName(i)].present
          /\ store[FileName(i)].spec = SpecOfFile(migrationRequestFiles[i])
    /\ log.at = "apply"
    /\ Mutating(log.calls) = <<>>
    /\ \A i \in 1..Len(log.changed) : log.changed[i] = FALSE

C3_Convergence == (<>[]QuietApply) => (<>[]FixedPoint)

(***************************************************************************)
(* C4  Scenario 3: with neither subordinate in the store, the apply path    *)
(* issues get, create, get, create, managedclustersets first, and returns   *)
(* no error; the sync after it issues no create, update or delete.          *)
(***************************************************************************)

BothCreated(calls) ==
    /\ \A i \in FileIndexes : FirstGet(calls, FileName(i), "notfound")
    /\ ~Failed(calls)

C4_CreateBoth ==
    /\ (log.at = "apply" /\ BothCreated(log.calls)) =>
          /\ [j \in 1..Len(log.calls) |-> <<log.calls[j].verb, log.calls[j].name>>]
                = << <<"get", SetsName>>, <<"create", SetsName>>,
                     <<"get", BindingsName>>, <<"create", BindingsName>> >>
          /\ log.errs = <<>>
    /\ (prev.at = "apply" /\ BothCreated(prev.calls)) => Mutating(log.calls) = <<>>

C4_Witness ==
    /\ prev.at = "apply" /\ BothCreated(prev.calls)
    /\ log.at = "apply" /\ Len(log.calls) = 2

(***************************************************************************)
(* C5  Scenario 4: when one subordinate is absent and the other one is      *)
(* stored with another spec than required, the apply path issues one       *)
(* create, for the absent one, and one update, for the stored one, and no  *)
(* call on any other name.                                                  *)
(***************************************************************************)

C5_Case(absent, stored) ==
    /\ log.at = "apply"
    /\ absent # stored
    /\ FirstGet(log.calls, FileName(absent), "notfound")
    /\ FirstGet(log.calls, FileName(stored), "ok")
    /\ CallsFor(log.calls, FileName(stored))[1].obj.spec # SpecOfFile(migrationRequestFiles[stored])
    /\ ~Failed(log.calls)

C5_CreateAndUpdate ==
    \A absent \in FileIndexes, stored \in FileIndexes :
        C5_Case(absent, stored) =>
            /\ CountVerb(log.calls, "create") = 1
            /\ CountVerb(log.calls, "update") = 1
            /\ CountVerb(log.calls, "delete") = 0
            /\ \A j \in 1..Len(log.calls) :
                  /\ log.calls[j].verb = "create" => log.calls[j].name = FileName(absent)
                  /\ log.calls[j].verb = "update" => log.calls[j].name = FileName(stored)
                  /\ log.calls[j].name \in {FileName(absent), FileName(stored)}

C5_Witness == \E absent \in FileIndexes, stored \in FileIndexes : C5_Case(absent, stored)

(***************************************************************************)
(* C6  Scenario 1: when the lookup of the CRD finds it absent, sync returns *)
(* nil and issues no call on a StorageVersionMigration and no AddAfter,     *)
(* whatever the Applied condition and the deletion timestamp are.           *)
(***************************************************************************)

C6_FailsClosed ==
    (Looked /\ ~crd) =>
        /\ log.errs = <<>>
        /\ log.calls = <<>>
        /\ log.requeue = <<>>

C6_Witness ==
    /\ Looked /\ ~crd
    /\ clusterManagers[log.key].present
    /\ clusterManagers[log.key].deleting
    /\ \E c \in clusterManagers[log.key].conditions : c.status = "True"

(***************************************************************************)
(* C7  Scenario 2: with the CRD present, the ClusterManager not deleting    *)
(* and its Applied condition False, Unknown or missing, sync calls AddAfter *)
(* once, for its own key and 5 seconds, returns nil and issues no create,  *)
(* update or delete.                                                        *)
(***************************************************************************)

C7_Case ==
    /\ Looked /\ crd
    /\ clusterManagers[log.key].present
    /\ ~clusterManagers[log.key].deleting
    /\ \A c \in clusterManagers[log.key].conditions :
          c.type = "Applied" => c.status \in {"False", "Unknown"}

C7_WaitForApplied ==
    C7_Case =>
        /\ log.requeue = <<[key |-> log.key, delay |-> 5]>>
        /\ log.errs = <<>>
        /\ Mutating(log.calls) = <<>>

C7_Witness ==
    /\ C7_Case
    /\ \E c \in clusterManagers[log.key].conditions : c.status = "Unknown"

(***************************************************************************)
(* C8  Scenario 5: with the CRD present and the deletion timestamp set,     *)
(* sync calls no AddAfter and issues no create or update, whatever the      *)
(* Applied condition is, and when no delete fails it issues one delete for *)
(* each subordinate.                                                        *)
(***************************************************************************)

C8_Case ==
    /\ Looked /\ crd
    /\ clusterManagers[log.key].present
    /\ clusterManagers[log.key].deleting

C8_RemoveOnDeletion ==
    C8_Case =>
        /\ log.requeue = <<>>
        /\ CountVerb(log.calls, "create") = 0
        /\ CountVerb(log.calls, "update") = 0
        /\ ~Failed(log.calls) =>
              [j \in 1..Len(log.calls) |-> <<log.calls[j].verb, log.calls[j].name>>]
                  = [i \in FileIndexes |-> <<"delete", FileName(i)>>]

C8_Witness ==
    /\ C8_Case
    /\ ~Failed(log.calls)
    /\ clusterManagers[log.key].conditions = {}
    /\ \E j \in 1..Len(log.calls) : log.calls[j].out = "ok"

(***************************************************************************)
(* C9  Removal idempotence.                                                 *)
(* As claimed: removing a subordinate that is absent returns no error and   *)
(* issues no mutating call (no call of the sync failing).                   *)
(* As amended: removing a subordinate that is absent issues one call, a     *)
(* delete by name, which leaves the store as it is, and returns no error    *)
(* unless that call fails with another error than NotFound.                 *)
(***************************************************************************)

\* file i was reached by the remove loop of the sync this step takes, and its
\* subordinate was absent
C9_Case(i) ==
    /\ log'.at = "remove"
    /\ i <= Len(log'.changed)
    /\ ~store[FileName(i)].present

\* the remove of file i returned no error: the loop went on, or ended clean
RemoveSucceeded(l, i) == i < Len(l.changed) \/ l.errs = <<>>

C9_RemoveAbsentNoCall ==
    [][\A i \in FileIndexes :
          (C9_Case(i) /\ ~Failed(log'.calls)) =>
              /\ RemoveSucceeded(log', i)
              /\ Mutating(CallsFor(log'.calls, FileName(i))) = <<>>]_vars

C9_RemoveAbsent ==
    [][\A i \in FileIndexes :
          C9_Case(i) =>
              LET mine == CallsFor(log'.calls, FileName(i))
              IN  /\ Len(mine) = 1
                  /\ mine[1].verb = "delete"
                  /\ mine[1].out \in {"notfound", "error"}
                  /\ mine[1].out = "notfound" => RemoveSucceeded(log', i)
                  /\ store'[FileName(i)] = store[FileName(i)]]_vars

C9_Witness ==
    /\ prev.at = "remove" /\ prev.errs = <<>>
    /\ log.at = "remove" /\ log.errs = <<>>
    /\ Len(log.calls) = Len(migrationRequestFiles)
    /\ \A j \in 1..Len(log.calls) : log.calls[j].out = "notfound"

(***************************************************************************)
(* C10  Removal postcondition: whatever the store held, when the remove     *)
(* path returns no error neither subordinate is in the store, and every     *)
(* object of another name is as it was.                                     *)
(***************************************************************************)

C10_Removed ==
    [][(log'.at = "remove" /\ log'.errs = <<>>) =>
          /\ \A n \in SubordinateNames : ~store'[n].present
          /\ \A n \in Names \ SubordinateNames : store'[n] = store[n]]_vars

C10_Witness ==
    /\ log.at = "remove" /\ log.errs = <<>>
    /\ CountVerb(SelectSeq(log.calls, LAMBDA c : c.out = "ok"), "delete") = 1
    /\ store[UnrelatedName].present

(***************************************************************************)
(* C11  Aggregate-and-continue on apply: applyStorageVersionMigrations      *)
(* tries every file whatever happened to the other one: a file that is read *)
(* and decoded gets its get; the error returned is non-nil exactly when a   *)
(* file failed (read, decode, get, create or update), and it holds one      *)
(* error for each file that failed, in file order.                          *)
(***************************************************************************)

\* the error file i of a loop ended with, read off what was given and what was
\* answered; "" when it did not fail
ErrOf(l, i) ==
    LET mine == CallsFor(l.calls, FileName(i))
    IN  IF l.assets[i] = "missing" THEN "missing"
        ELSE IF l.assets[i] = "undecodable" THEN "decode"
        ELSE IF l.assets[i] = "invalid" THEN "invalid"
        ELSE IF Failed(mine) THEN mine[Len(mine)].verb
        ELSE ""

C11_ApplyAggregates ==
    log.at = "apply" =>
        /\ Len(log.changed) = Len(migrationRequestFiles)
        /\ \A i \in FileIndexes :
              log.assets[i] = "ok" =>
                  /\ CallsFor(log.calls, FileName(i)) # <<>>
                  /\ CallsFor(log.calls, FileName(i))[1].verb = "get"
        /\ (log.errs # <<>>) <=> (\E i \in FileIndexes : ErrOf(log, i) # "")
        /\ log.errs = SelectSeq([i \in FileIndexes |-> ErrOf(log, i)], LAMBDA e : e # "")

C11_Witness ==
    /\ log.at = "apply"
    /\ log.assets[1] = "undecodable"
    /\ Len(CallsFor(log.calls, FileName(2))) = 2
    /\ Failed(CallsFor(log.calls, FileName(2)))
    /\ Len(log.errs) = 2

(***************************************************************************)
(* C12  Aggregate-and-continue on remove: when the delete of the first      *)
(* file fails with another error than NotFound, removeStorageVersion-       *)
(* Migrations still issues the delete of the second file.                   *)
(***************************************************************************)

C12_RemoveContinues ==
    (/\ log.at = "remove"
     /\ log.calls # <<>>
     /\ log.calls[1].name = FileName(1)
     /\ log.calls[1].out = "error")
        => CountVerb(CallsFor(log.calls, FileName(2)), "delete") = 1

(***************************************************************************)
(* C13  No retry on conflict: a sync on the apply path issues at most one   *)
(* get and at most one create or update for each file; when the update of   *)
(* a file fails with a Conflict the calls on it are that get and that       *)
(* update and sync returns an error; the sync after it, when it takes the   *)
(* apply path, starts the file with a get.                                  *)
(***************************************************************************)

ConflictOn(calls, i) ==
    \E j \in 1..Len(calls) :
        /\ calls[j].name = FileName(i)
        /\ calls[j].verb = "update"
        /\ calls[j].out = "conflict"

C13_NoRetryOnConflict ==
    /\ log.at = "apply" =>
          \A i \in FileIndexes :
              LET mine == CallsFor(log.calls, FileName(i))
              IN  /\ CountVerb(mine, "get") <= 1
                  /\ Len(Mutating(mine)) <= 1
                  /\ ConflictOn(log.calls, i) =>
                        /\ Len(mine) = 2
                        /\ mine[1].verb = "get"
                        /\ mine[2].out = "conflict"
                        /\ log.errs # <<>>
    /\ (prev.at = "apply" /\ log.at = "apply") =>
          \A i \in FileIndexes :
              ConflictOn(prev.calls, i) =>
                  /\ CallsFor(log.calls, FileName(i)) # <<>>
                  /\ CallsFor(log.calls, FileName(i))[1].verb = "get"

C13_Witness ==
    \E i \in FileIndexes :
        /\ prev.at = "apply" /\ ConflictOn(prev.calls, i)
        /\ log.at = "apply" /\ FirstGet(log.calls, FileName(i), "ok")
        /\ Len(prev.errs) = 1

(***************************************************************************)
(* C14  No error is swallowed: a sync on the apply path returns nil exactly *)
(* when none of its get, create and update calls failed (NotFound is no     *)
(* failure of a get), and the error it returns holds one error for each     *)
(* file one of whose calls failed.                                          *)
(***************************************************************************)

FailedFiles(calls) == {i \in FileIndexes : Failed(CallsFor(calls, FileName(i)))}

C14_NoSwallow ==
    log.at = "apply" =>
        /\ (log.errs = <<>>) <=> ~Failed(log.calls)
        /\ Len(log.errs) = Cardinality(FailedFiles(log.calls))

C14_Witness ==
    /\ log.at = "apply"
    /\ \E j \in 1..Len(log.calls) :
          log.calls[j].verb = "create" /\ log.calls[j].out = "error"
    /\ \E j \in 1..Len(log.calls) :
          log.calls[j].verb = "get" /\ log.calls[j].out = "error"
    /\ Len(log.errs) = 2

(***************************************************************************)
(* C15  Best-effort partial result: whenever applyStorageVersionMigration   *)
(* returns an error of a store call (get, create or update), the object it  *)
(* returns is not nil.                                                      *)
(***************************************************************************)

C15_PartialResult ==
    log.at = "apply" =>
        \A i \in 1..Len(log.objs) :
            Failed(CallsFor(log.calls, FileName(i))) => log.objs[i].present

(***************************************************************************)
(* C16  Events match mutations: an apply emits one event for each create    *)
(* and each update it issues, in the order of the calls: Created or         *)
(* CreateFailed after a create, Updated or UpdateFailed after an update, by *)
(* the answer of the call; it emits no other event, so none for a file that *)
(* issues no create and no update.                                          *)
(***************************************************************************)

ReasonOf(c) ==
    IF c.verb = "create"
    THEN IF c.out = "ok" THEN "StorageVersionMigrationCreated"
         ELSE "StorageVersionMigrationCreateFailed"
    ELSE IF c.out = "ok" THEN "StorageVersionMigrationUpdated"
         ELSE "StorageVersionMigrationUpdateFailed"

C16_EventsMatch ==
    log.at = "apply" =>
        LET muts == SelectSeq(log.calls, LAMBDA c : c.verb \in {"create", "update"})
        IN  /\ Len(log.events) = Len(muts)
            /\ \A j \in 1..Len(muts) :
                  log.events[j] = Event(ReasonOf(muts[j]), muts[j].name)

C16_Witness ==
    /\ log.at = "apply"
    /\ log.events = <<Event("StorageVersionMigrationCreateFailed", SetsName),
                      Event("StorageVersionMigrationUpdated", BindingsName)>>

\* a file that is not decoded, next to one whose get fails: no event
C16_QuietWitness ==
    /\ log.at = "apply"
    /\ log.assets[1] = "undecodable"
    /\ Failed(CallsFor(log.calls, FileName(2)))
    /\ log.events = <<>>

(***************************************************************************)
(* C20  Three terminal states: a sync calls AddAfter at most once, for its  *)
(* own key and a positive delay, and never in an invocation that returns an *)
(* error; so it ends with nil and no requeue, with an error and no requeue, *)
(* or with nil and one delayed requeue.                                     *)
(***************************************************************************)

C20_TerminalStates ==
    log.at # "none" =>
        /\ Len(log.requeue) <= 1
        /\ log.errs # <<>> => log.requeue = <<>>
        /\ \A j \in 1..Len(log.requeue) :
              log.requeue[j].delay > 0 /\ log.requeue[j].key = log.key

C20_Witness ==
    /\ log.at = "wait"
    /\ log.errs = <<>>
    /\ Len(log.requeue) = 1

(***************************************************************************)
(* The state of a key in the scheduler                                      *)
(***************************************************************************)

TimesIn(q, k) == Len(SelectSeq(q, LAMBDA item : item = k))

InQueue(k) == TimesIn(queue, k) > 0

TimesInQueue(k) == TimesIn(queue, k)

\* idle, queued (in the queue or waiting for a delayed add) or running, for
\* the keys the workers run, a queue and the delayed adds
PhaseOf(procs, q, waiting, k) ==
    IF k \in procs THEN "running"
    ELSE IF TimesIn(q, k) > 0 \/ waiting[k] # {} THEN "queued"
    ELSE "idle"

Phase(k) == PhaseOf(Processing, queue, waitingForAdd, k)

\* the phase of k after the step
PhaseAfter(k) == PhaseOf(Processing', queue', waitingForAdd', k)

(***************************************************************************)
(* C17  At most one reconcile in flight per key: no two workers run sync    *)
(* for the same name at the same time, however many events came for it;     *)
(* two workers may run sync for two names at the same time (witness).       *)
(***************************************************************************)

C17_OneRunPerKey ==
    \A w1 \in Workers, w2 \in Workers :
        (w1 # w2 /\ running[w1] # "") => running[w1] # running[w2]

C17_Witness ==
    /\ \A w \in Workers : running[w] # ""
    /\ \A k \in QueueKeys : k \in dirty /\ k \in unserved

(***************************************************************************)
(* C18  Coalescing: a key is in the queue at most once whatever the number  *)
(* of signals, and never while a worker runs it; a key signalled while it   *)
(* is run is queued once when the run ends; no signal is lost: a name that  *)
(* was signalled is queued, or run and marked for one more run, until a run *)
(* for it starts, and such a run does start.                                *)
(***************************************************************************)

SignalKept(n) == InQueue(n) \/ (n \in Processing /\ n \in dirty)

C18_Coalescing ==
    /\ [](\A k \in QueueKeys :
            /\ TimesInQueue(k) <= 1
            /\ k \in Processing => ~InQueue(k)
            /\ k \in unserved => SignalKept(k))
    /\ [][\A w \in Workers :
            (running[w] # "" /\ running'[w] = "" /\ running[w] \in unserved) =>
                TimesIn(queue', running[w]) = 1]_vars
    /\ \A k \in QueueKeys : (k \in unserved) ~> (k \notin unserved)

C18_Witness ==
    \E k \in QueueKeys :
        /\ k \in Processing
        /\ k \in unserved
        /\ log.key = k

(***************************************************************************)
(* C19  Outcome of a run: when the sync of a key returns an error the key   *)
(* is queued with backoff (the wait of AddRateLimited); when it called      *)
(* AddAfter the key is queued with the fixed delay; when it returns nil     *)
(* without AddAfter, the key was not signalled during the run and no        *)
(* delayed add of it is waiting, the key is idle; and an idle key stays     *)
(* idle until it is signalled, which queues it.                             *)
(***************************************************************************)

C19_RunOutcome ==
    [][/\ \A w \in Workers :
            IF running[w] = "" \/ running'[w] # "" THEN TRUE
            ELSE
                LET key == running[w]
                IN  /\ log'.key = key
                    /\ log'.errs # <<>> =>
                          "backoff" \in waitingForAdd'[key] /\ PhaseAfter(key) = "queued"
                    /\ log'.requeue # <<>> =>
                          "fixed" \in waitingForAdd'[key] /\ PhaseAfter(key) = "queued"
                    /\ log'.at = "wait" => "fixed" \in waitingForAdd'[key]
                    /\ log'.at = "crdError" => "backoff" \in waitingForAdd'[key]
                    /\ (/\ log'.at \in {"notFound", "unsupported", "remove", "apply"}
                        /\ log'.errs = <<>>
                        /\ key \notin dirty
                        /\ waitingForAdd[key] = {}) => PhaseAfter(key) = "idle"
       /\ \A k \in QueueKeys :
            (Phase(k) = "idle" /\ PhaseAfter(k) # "idle") =>
                /\ k \notin unserved /\ k \in unserved'
                /\ PhaseAfter(k) = "queued"]_vars

C19_Witness ==
    \E k \in QueueKeys, other \in QueueKeys :
        /\ log.at = "crdError" /\ log.key = k
        /\ waitingForAdd[k] = {"backoff"} /\ Phase(k) = "queued"
        /\ waitingForAdd[other] = {"fixed"} /\ Phase(other) = "queued"
        /\ queue = <<>>

\* a run that ended clean left its key idle
C19_IdleWitness ==
    /\ log.at = "apply" /\ log.errs = <<>>
    /\ Phase(log.key) = "idle"
    /\ store[SetsName].present

(***************************************************************************)
(* C30  Fresh read before every mutation decision: in a sync on the apply   *)
(* path every create comes right after a get of the same name that answered *)
(* NotFound and every update right after a get of the same name that        *)
(* answered the object, both in that sync; and what the get answered is     *)
(* what the store held when the sync ran, whatever an earlier sync saw.     *)
(***************************************************************************)

C30_FreshRead ==
    [][log'.at = "apply" =>
          \A j \in 1..Len(log'.calls) :
              LET c == log'.calls[j]
              IN  /\ c.verb \in {"create", "update"} =>
                        /\ j > 1
                        /\ log'.calls[j - 1].verb = "get"
                        /\ log'.calls[j - 1].name = c.name
                        /\ log'.calls[j - 1].out =
                              (IF c.verb = "create" THEN "notfound" ELSE "ok")
                  /\ (c.verb = "get" /\ c.out = "ok") => c.obj = store[c.name]
                  /\ (c.verb = "get" /\ c.out = "notfound") => ~store[c.name].present]_vars

\* the sync before saw the subordinate absent and created it, somebody deleted
\* one and rewrote the other, and this sync read both again
C30_Witness ==
    /\ log.at = "apply"
    /\ Len(log.calls) = 4
    /\ log.calls[2].verb = "create" /\ log.calls[2].out = "ok"
    /\ log.calls[4].verb = "update" /\ log.calls[4].out = "ok"
    /\ log.calls[3].obj.annotations # NoAnnotations

(***************************************************************************)
(* C28  Poll-with-delay liveness: with the CRD installed and no call        *)
(* failing, a sync that finds the ClusterManager present, not being deleted *)
(* and not Applied leaves a delayed add of its key waiting; so a present    *)
(* ClusterManager that is not Applied never has its key idle, and once the  *)
(* lister shows it Applied, with no event delivered for that, a later sync  *)
(* of its key takes the apply path and both subordinates are in the store.  *)
(***************************************************************************)

BothExist == \A i \in FileIndexes : store[FileName(i)].present

C28_PollWithDelay ==
    /\ [][\A w \in Workers :
            IF running[w] = "" \/ running'[w] # "" THEN TRUE
            ELSE (clusterManagers[running[w]] = ClusterManager(FALSE, {}))
                     => /\ log'.at = "wait"
                        /\ "fixed" \in waitingForAdd'[running[w]]]_vars
    /\ [](\A k \in QueueKeys :
             (clusterManagers[k].present /\ ~Applied(k)) => Phase(k) # "idle")
    /\ \A k \in QueueKeys :
          (Applied(k) /\ Phase(k) # "idle")
              ~> (log.key = k /\ log.at = "apply" /\ log.errs = <<>> /\ BothExist)

\* one ClusterManager became Applied and its sync applied the manifests; the
\* other is still waited for, its delayed add pending
C28_Witness ==
    \E k, other \in QueueKeys :
        /\ k # other
        /\ Applied(k) /\ log.key = k /\ log.at = "apply" /\ BothExist
        /\ CountVerb(log.calls, "create") = 2
        /\ clusterManagers[other] = ClusterManager(FALSE, {})
        /\ waitingForAdd[other] = {"fixed"}

(***************************************************************************)
(* C29  Recovery from transient failures: with the CRD installed and every  *)
(* ClusterManager Applied and not deleted, if only finitely many syncs have *)
(* a failing store call, and failed syncs are queued again, then eventually *)
(* both subordinates are in the store with the spec of their manifests, and *)
(* stay so.                                                                 *)
(***************************************************************************)

BothDesired ==
    \A i \in FileIndexes :
        /\ store[FileName(i)].present
        /\ store[FileName(i)].spec = SpecOfFile(migrationRequestFiles[i])

C29_Recovery == (<>[](~Failed(log.calls))) => <>[]BothDesired

(***************************************************************************)
(* Reading the conditions of the Klusterlet                                 *)
(***************************************************************************)

TypesIn(conds) == {conds[i].type : i \in 1..Len(conds)}

\* the stored condition of a type the slice holds
StoredOf(type) == klusterletConditions[IndexOfCondition(klusterletConditions, type)]

\* the problem a signal names
ProblemOf(signal) ==
    IF signal = "BootstrapSecret" THEN "BootstrapSecretMissing"
    ELSE IF signal = "HubKubeConfig" THEN "HubKubeConfigMissing"
    ELSE "UnavailablePods"

FailingSignals(category) ==
    SelectSeq(SignalsOf(category), LAMBDA sig : ~Healthy(sig, signals))

(***************************************************************************)
(* C21  Multi-cause Degraded reason, as the claim has it: after a sync of   *)
(* the status controller the Degraded condition of a category is True       *)
(* exactly when a signal of the category has a problem, and its reason is   *)
(* then the problems of the failing signals, and of no other signal,        *)
(* joined by commas in the order of the signals.                            *)
(***************************************************************************)

C22_FunctionalWhenAllHealthy ==
    statusLog.fresh =>
        \A category \in DegradedCategories :
            LET c == StoredOf(category)
            IN  /\ c.status \in {"True", "False"}
                /\ (c.status = "False") <=> (FailingSignals(category) = <<>>)
                /\ c.status = "False" =>
                      c.reason = (IF category = klusterletHubConnectionDegraded
                                  THEN "HubConnectionFunctional"
                                  ELSE "DeploymentsFunctional")

\* both secrets are there
C22_Witness ==
    /\ statusLog.fresh
    /\ signals.bootstrapSecret /\ signals.hubKubeConfig
    /\ StoredOf(klusterletHubConnectionDegraded).status = "False"
    /\ StoredOf(klusterletHubConnectionDegraded).reason = "HubConnectionFunctional"
    /\ klusterletHubConnectionDegraded \in statusLog.flipped

(***************************************************************************)
(* C23  Available is a weaker bar than not-Degraded: after a sync of the    *)
(* status controller Available is True exactly when a deployment has an     *)
(* available pod, and False with reason NoAvailablePods otherwise; it can   *)
(* be True while a Degraded condition is True (witness).                    *)
(***************************************************************************)

C23_Available ==
    statusLog.fresh =>
        LET c == StoredOf(klusterletAvailable)
            serving == \E d \in DeploymentNames : signals.available[d] >= 1
        IN  /\ (c.status = "True") <=> serving
            /\ serving => c.reason = "klusterletAvailable"
            /\ ~serving => (c.status = "False" /\ c.reason = "NoAvailablePods")

\* one pod of three available in one deployment, none in the other
C23_Witness ==
    /\ statusLog.fresh
    /\ signals.available[RegistrationDeployment] = 1
    /\ signals.available[WorkDeployment] = 0
    /\ StoredOf(klusterletAvailable).status = "True"
    /\ StoredOf(klusterletRegistrationDesiredDegraded).status = "True"
    /\ StoredOf(klusterletWorkDesiredDegraded).status = "True"

(***************************************************************************)
(* C24  Condition monotonicity: in every write of the conditions, an entry  *)
(* whose status stays keeps its last-transition time, also when reason or   *)
(* message change; an entry whose status changes, and a new entry, gets the *)
(* time of the write; and no last-transition time ever decreases.           *)
(***************************************************************************)

C24_Monotonic ==
    [][/\ \A i \in 1..Len(klusterletConditions) :
             LET old == klusterletConditions[i]
                 k == IndexOfCondition(klusterletConditions', old.type)
             IN  IF k = 0 THEN FALSE
                 ELSE LET new == klusterletConditions'[k]
                      IN  /\ new.status = old.status =>
                                new.lastTransitionTime = old.lastTransitionTime
                          /\ new.status # old.status => new.lastTransitionTime = now
                          /\ new.lastTransitionTime >= old.lastTransitionTime
       /\ \A k \in 1..Len(klusterletConditions') :
             klusterletConditions'[k].type \notin TypesIn(klusterletConditions) =>
                 klusterletConditions'[k].lastTransitionTime = now]_vars

\* one write, later than the first: the hub condition got another reason and
\* kept its time, the registration condition went False and got the new time
C24_Witness ==
    /\ klusterletHubConnectionDegraded \in statusLog.kept
    /\ klusterletRegistrationDesiredDegraded \in statusLog.flipped
    /\ StoredOf(klusterletHubConnectionDegraded).lastTransitionTime < now
    /\ StoredOf(klusterletRegistrationDesiredDegraded).lastTransitionTime = now

(***************************************************************************)
(* C25  Condition set uniqueness: the conditions of the Klusterlet never    *)
(* hold two entries of one type, a type that was written stays, and after   *)
(* a write the types it wrote are there.                                    *)
(***************************************************************************)

C25_OneEntryPerType ==
    /\ [](\A i, j \in 1..Len(klusterletConditions) :
             klusterletConditions[i].type = klusterletConditions[j].type => i = j)
    /\ [][TypesIn(klusterletConditions) \subseteq TypesIn(klusterletConditions')]_vars
    /\ [][/\ statusLog'.op = "status" =>
                DegradedCategories \cup {klusterletAvailable}
                    \subseteq TypesIn(klusterletConditions')
          /\ statusLog'.op = "applied" =>
                klusterletApplied \in TypesIn(klusterletConditions')]_vars

\* all five types written, Applied twice, some of the others twice
C25_Witness ==
    /\ Len(klusterletConditions) = 5
    /\ statusLog.op = "applied"
    /\ statusLog.flipped = {klusterletApplied}
    /\ now = MaxTime
    /\ \E i \in 1..Len(klusterletConditions) :
          /\ klusterletConditions[i].type # klusterletApplied
          /\ klusterletConditions[i].lastTransitionTime > 0

(***************************************************************************)
(* C26  Diffed status writes: a sync of the status controller whose         *)
(* aggregated conditions have the status and the reason of the stored ones  *)
(* sends no status to the store and leaves the stored conditions as they    *)
(* are; so a sync after a sync, with the signals unchanged, sends nothing.  *)
(***************************************************************************)

SameAsStored(c) ==
    LET k == IndexOfCondition(klusterletConditions, c.type)
    IN  IF k = 0 THEN FALSE
        ELSE /\ klusterletConditions[k].status = c.status
             /\ klusterletConditions[k].reason = c.reason

C26_DiffedWrites ==
    [][(/\ statusLog'.op = "status"
        /\ statusLog' # statusLog \/ klusterletConditions' # klusterletConditions)
          => /\ (\A i \in 1..Len(aggregate(signals)) : SameAsStored(aggregate(signals)[i]))
                    => /\ statusLog'.writes = 0
                       /\ klusterletConditions' = klusterletConditions
             /\ statusLog.fresh => statusLog'.writes = 0
             /\ statusLog'.writes = 0 => klusterletConditions' = klusterletConditions]_vars

\* the available pods of the work deployment changed after the last write, the
\* aggregated conditions did not, and the sync sent nothing
C26_Witness ==
    /\ statusLog.op = "status" /\ statusLog.fresh /\ statusLog.writes = 0
    /\ Len(klusterletConditions) = 4
    /\ now = 2
    /\ signals.available[RegistrationDeployment] = 1
    /\ signals.available[WorkDeployment] = 1
    /\ StoredOf(klusterletAvailable).lastTransitionTime = 1
    /\ \A i \in 1..Len(klusterletConditions) :
          klusterletConditions[i].lastTransitionTime < now

(***************************************************************************)
(* C27  Generation Tracker: observe of a (resource, name) gives nothing     *)
(* exactly when no generation was recorded for it, and else the generation  *)
(* recorded last; a record for one (resource, name) leaves what observe     *)
(* gives for every other pair, also one of the same name and another        *)
(* resource; an entry once there stays; and when the klusterlet controller  *)
(* has applied a subordinate, drifted or not, the generation recorded for   *)
(* it is the generation the subordinate has in the store.                   *)
(***************************************************************************)

Observe(gens, p) == FindGenerationStatus(gens, NewGenerationStatus(p[1], p[2], 0))

C27_GenerationTracker ==
    /\ [](\A p \in Pairs :
             /\ Observe(generations, p).present <=> recorded[p] # 0
             /\ Observe(generations, p).present =>
                   Observe(generations, p).lastGeneration = recorded[p])
    /\ [][\A p \in Pairs :
             /\ Observe(generations, p).present => Observe(generations', p).present
             /\ recorded'[p] = recorded[p] =>
                   Observe(generations', p) = Observe(generations, p)
             /\ recorded'[p] # recorded[p] =>
                   /\ \A q \in Pairs \ {p} :
                         Observe(generations', q) = Observe(generations, q)
                   /\ ~subordinates'[p].drifted
                   /\ Observe(generations', p).lastGeneration =
                         subordinates'[p].generation]_vars

\* a deployment and a statefulset of one name, both recorded; the deployment
\* was updated from outside and applied again, and its entry followed
C27_Witness ==
    LET d == <<"deployments", WorkDeployment>>
        s == <<"statefulsets", WorkDeployment>>
    IN  /\ subordinates[d] = [generation |-> 3, drifted |-> FALSE]
        /\ Observe(generations, d).lastGeneration = 3
        /\ Observe(generations, s).lastGeneration = 1
        /\ ~Observe(generations, <<"deployments", RegistrationDeployment>>).present
        /\ Len(generations) = 2

(***************************************************************************)
(* C34  Meaning of the changed flag: for every file of an apply, changed is *)
(* true exactly when a create or an update of its subordinate was issued,   *)
(* whether the call succeeded or failed; it is false when the manifest      *)
(* could not be read or decoded, when the get failed and when the get       *)
(* found nothing to change.                                                 *)
(***************************************************************************)

MutationsFor(calls, i) ==
    SelectSeq(CallsFor(calls, FileName(i)), LAMBDA c : c.verb \in {"create", "update"})

C34_ChangedFlag ==
    log.at = "apply" =>
        /\ Len(log.changed) = Len(migrationRequestFiles)
        /\ \A i \in FileIndexes :
              LET calls == CallsFor(log.calls, FileName(i))
              IN  /\ log.changed[i] <=> MutationsFor(log.calls, i) # <<>>
                  /\ log.assets[i] # "ok" => (calls = <<>> /\ ~log.changed[i])
                  /\ (calls # <<>> /\ calls[Len(calls)].verb = "get") => ~log.changed[i]

\* the create of the first subordinate failed: changed; the get of the second
\* failed: not changed
C34_Witness ==
    /\ log.at = "apply"
    /\ log.changed = <<TRUE, FALSE>>
    /\ Len(log.calls) = 3
    /\ log.calls[2].verb = "create" /\ log.calls[2].out = "error"
    /\ log.calls[3].verb = "get" /\ log.calls[3].out = "error"
    /\ Len(log.errs) = 2

(***************************************************************************)
(* C32  Owning object gone: a sync for a key whose ClusterManager the       *)
(* lister does not find returns nil, issues no call on the subordinates     *)
(* and no event, asks for no requeue and leaves the store as it is; the CRD *)
(* is not looked up, so neither its absence nor a failure of its lookup     *)
(* shows in what the sync returns.                                          *)
(***************************************************************************)

C32_OwnerGone ==
    [][(log'.at # "none" /\ ~clusterManagers[log'.key].present)
          => /\ log'.at = "notFound"
             /\ log'.errs = <<>>
             /\ log'.calls = <<>>
             /\ log'.events = <<>>
             /\ log'.requeue = <<>>
             /\ store' = store]_vars

\* the ClusterManager is gone, its subordinates are still in the store
C32_Witness ==
    /\ log.at = "notFound"
    /\ ~clusterManagers[log.key].present
    /\ \A n \in SubordinateNames : store[n].present
    /\ crd

(***************************************************************************)
(* C33  Capability check error: a sync whose lookup of the CRD fails with   *)
(* an error other than NotFound returns that error, issues no call on the   *)
(* subordinates, asks for no requeue and leaves the store as it is; a sync  *)
(* returns nil as "not supported" only when the CRD is not installed, and   *)
(* goes on to the subordinates only when it is.                             *)
(***************************************************************************)

C33_CapabilityError ==
    [][/\ log'.at = "crdError"
            => /\ clusterManagers[log'.key].present
               /\ log'.errs = <<"crd">>
               /\ log'.calls = <<>>
               /\ log'.events = <<>>
               /\ log'.requeue = <<>>
               /\ store' = store
       /\ log'.at = "unsupported"
            => /\ ~crd
               /\ log'.errs = <<>>
               /\ log'.calls = <<>>
               /\ log'.requeue = <<>>
               /\ store' = store
       /\ log'.at \in {"remove", "wait", "apply"} => crd]_vars

\* the CRD is installed and the ClusterManager Applied, the lookup failed
C33_Witness ==
    /\ log.at = "crdError"
    /\ crd
    /\ IsStatusConditionTrue(clusterManagers[log.key].conditions, clusterManagerApplied)
    /\ ~clusterManagers[log.key].deleting
    /\ \E n \in SubordinateNames : ~store[n].present

(***************************************************************************)
(* C31  Cancellation: every call of a sync has the context of the sync, so  *)
(* once the context is cancelled the sync starts no call, no call of it     *)
(* stays in flight, and the sync returns.                                   *)
(***************************************************************************)

C31_Cancellation ==
    /\ [](\A j \in 1..Len(reconcile.plan) : reconcile.plan[j].ctx = "ctx")
    /\ [][(ctxDone /\ reconcile'.inflight # <<>>)
              => reconcile'.inflight = reconcile.inflight]_vars
    /\ (ctxDone /\ reconcile.pc = "running") ~> (reconcile.pc = "idle")

\* the parts that hold of the code: the lookup of the CRD and the deletes have
\* the context of the sync, and with it cancelled none of them is started or
\* stays in flight
CancellationOfBoundCalls ==
    /\ [][(ctxDone /\ reconcile'.inflight # <<>>
                   /\ reconcile'.inflight[1].verb \in {"getCRD", "delete"})
              => reconcile'.inflight = reconcile.inflight]_vars
    /\ (ctxDone /\ reconcile.inflight # <<>>
                /\ reconcile.inflight[1].verb \in {"getCRD", "delete"})
          ~> (reconcile.inflight = <<>>)

====
